---------------------------- MODULE Spec2Model ----------------------------
(***************************************************************************)
(* A model of the matter2mqtt bridge: the snapshot refresh and its         *)
(* de-duplicating caches, the MQTT command ingress, the command consumer,  *)
(* the Matter commander with its reconnect-and-retry, and the start/stop   *)
(* life cycle of the application.                                          *)
(*                                                                         *)
(* Python strings are sequences of one-character strings, so that split,   *)
(* strip, upper, int() and the f-string topic formatting are computed.     *)
(* Optional[bool] is a sequence of length 0 (None) or 1.                   *)
(***************************************************************************)
EXTENDS Integers, Sequences, FiniteSets, TLC

VARIABLES
    running,        \* Matter2MQTT.running
    last_state,     \* Matter2MQTT.last_state : key -> bool
    last_avail,     \* Matter2MQTT.last_avail : key -> bool
    retained,       \* the broker's retained value per topic
    published,      \* the publishes of the last refresh_snapshot, in order
    observed,       \* the endpoints the last refresh_snapshot extracted
    snapshot,       \* the nodes the last refresh_snapshot was answered with
    tick,           \* how the last refresh_snapshot of the periodic task ended
    lastMsg,        \* the last message handed to _on_message
    scheduled,      \* loop callbacks queued by call_soon_threadsafe
    cmd_queue,      \* Matter2MQTT.cmd_queue
    rx,             \* number of commands accepted by _on_message
    mqtt,           \* the paho client: "new", "started" (loop_start), "closed"
    ws,             \* MatterWS.ws: "None", "open", "closed"
    client,         \* MatterCommander.client: "None", "new" (not connected), "connected"
    session,        \* MatterCommander.session exists
    lock,           \* holder of MatterCommander._lock, or "free"
    connectCalls,   \* the calls of MatterCommander.connect(): by whom, the client
                    \* and the lock holder each found
    importable,     \* whether MatterClient and Clusters could be imported
    pc,             \* where each coroutine is suspended
    cancelReq,      \* tasks whose cancel() was called and not yet delivered
    outcome,        \* how each task ended
    cur,            \* the command the consumer is processing, if any
    trace,          \* what the consumer did for that command, in order
    sent,           \* ids of the commands of all send attempts, in order
    closeLog,       \* the close() calls stop() made, in order
    closeFailed,    \* the resources whose close() raised
    startLog,       \* the startup steps start() completed, in order
    startError,     \* the startup step whose failure left start(), or "none"
    stopResult,     \* how the stop() call of each caller ended
    signals         \* SIGINT/SIGTERM received

vars == <<running, last_state, last_avail, retained, published, observed, snapshot, tick,
          lastMsg, scheduled, cmd_queue, rx, mqtt, ws, client, session, lock,
          connectCalls, importable, pc, cancelReq, outcome, cur, trace, sent, closeLog,
          closeFailed, startLog, startError, stopResult, signals>>

\* the variables of the commander, the tasks and the life cycle
bridgeVars == <<mqtt, ws, client, session, lock, connectCalls, importable, pc, cancelReq, outcome,
                cur, trace, sent, closeLog, closeFailed, startLog, startError,
                stopResult, signals>>

\* the two long-running tasks of start(), and the callers of stop(): the
\* runner of matter2mqtt.main and one more caller, who calls stop() again
Tasks == {"refresh", "consumer"}
Callers == {"runner", "again"}
\* a coroutine that calls the commander directly
Users == {"user"}
Procs == Tasks \cup Callers \cup Users

---------------------------------------------------------------------------
(* Bounds of the model.                                                    *)

\* nodes in one snapshot of the refresh specification
MaxNodes == 2
\* commands accepted from MQTT
MaxCmds == 2
\* signals delivered to the process
MaxSignals == 1
\* items in the attribute dict of a node handed to the extraction
MaxAttrs == 2
\* direct calls of MatterCommander.set_onoff
MaxCalls == 2

---------------------------------------------------------------------------
(* Program constants.                                                      *)

ONOFF_CLUSTER_ID == 6
ONOFF_ATTRIBUTE_ID == 0

---------------------------------------------------------------------------
(* Python string primitives.                                               *)

Digits == <<"0", "1", "2", "3", "4", "5", "6", "7", "8", "9">>
LowerCase == <<"a", "b", "c", "d", "e", "f", "g", "h", "i", "j", "k", "l", "m",
               "n", "o", "p", "q", "r", "s", "t", "u", "v", "w", "x", "y", "z">>
UpperCase == <<"A", "B", "C", "D", "E", "F", "G", "H", "I", "J", "K", "L", "M",
               "N", "O", "P", "Q", "R", "S", "T", "U", "V", "W", "X", "Y", "Z">>
Whitespace == {" ", "\n", "\t"}

IsDigit(c) == \E i \in 1..10 : Digits[i] = c
DigitVal(c) == (CHOOSE i \in 1..10 : Digits[i] = c) - 1

\* str.upper() on one character
UpperChar(c) ==
    IF \E i \in 1..26 : LowerCase[i] = c
    THEN UpperCase[CHOOSE i \in 1..26 : LowerCase[i] = c]
    ELSE c

\* str.upper()
Upper(s) == [i \in 1..Len(s) |-> UpperChar(s[i])]

\* str.strip()
Strip(s) ==
    LET keep == {i \in 1..Len(s) : s[i] \notin Whitespace}
    IN  IF keep = {} THEN <<>>
        ELSE LET lo == CHOOSE i \in keep : \A j \in keep : i <= j
                 hi == CHOOSE i \in keep : \A j \in keep : j <= i
             IN  SubSeq(s, lo, hi)

RECURSIVE SplitN(_, _)
\* str.split("/", n): at most n splits, the rest is the last part
SplitN(s, n) ==
    LET at == {i \in 1..Len(s) : s[i] = "/"}
    IN  IF n = 0 \/ at = {} THEN <<s>>
        ELSE LET i == CHOOSE x \in at : \A y \in at : x <= y
             IN  <<SubSeq(s, 1, i - 1)>> \o SplitN(SubSeq(s, i + 1, Len(s)), n - 1)

\* str.split("/")
Split(s) == SplitN(s, Len(s))

RECURSIVE DigitsValue(_)
DigitsValue(s) ==
    IF s = <<>> THEN 0
    ELSE 10 * DigitsValue(SubSeq(s, 1, Len(s) - 1)) + DigitVal(s[Len(s)])

\* int(str): surrounding whitespace and one sign are accepted, then digits only;
\* anything else raises ValueError (ok = FALSE)
PyInt(s) ==
    LET t == Strip(s)
        signed == t # <<>> /\ t[1] \in {"-", "+"}
        d == IF signed THEN Tail(t) ELSE t
    IN  IF d # <<>> /\ \A i \in 1..Len(d) : IsDigit(d[i])
        THEN [ok |-> TRUE,
              val |-> IF signed /\ t[1] = "-" THEN 0 - DigitsValue(d) ELSE DigitsValue(d)]
        ELSE [ok |-> FALSE, val |-> 0]

RECURSIVE NatStr(_)
\* str(n) of a natural number, as the f-strings of topics.py format it
NatStr(n) ==
    IF n < 10 THEN <<Digits[n + 1]>>
    ELSE NatStr(n \div 10) \o <<Digits[(n % 10) + 1]>>

\* f"{n}" of an integer
IntStr(n) == IF n < 0 THEN <<"-">> \o NatStr(0 - n) ELSE NatStr(n)

RECURSIVE Join(_)
\* "/".join(parts)
Join(parts) ==
    IF Len(parts) = 0 THEN <<>>
    ELSE IF Len(parts) = 1 THEN parts[1]
    ELSE parts[1] \o <<"/">> \o Join(Tail(parts))

\* Optional values: None and a present value
None == <<>>
Some(v) == <<v>>

\* dict.get(key)
Get(d, key) == IF key \in DOMAIN d THEN Some(d[key]) ELSE None

\* d[key] = value
Put(d, key, value) == [k \in DOMAIN d \cup {key} |-> IF k = key THEN value ELSE d[k]]

EmptyDict == [k \in {} |-> TRUE]

---------------------------------------------------------------------------
(* topics.py                                                               *)

W_matter == <<"m", "a", "t", "t", "e", "r">>
W_set == <<"s", "e", "t">>
W_state == <<"s", "t", "a", "t", "e">>
W_available == <<"a", "v", "a", "i", "l", "a", "b", "l", "e">>
W_homeassistant == <<"h", "o", "m", "e", "a", "s", "s", "i", "s", "t", "a", "n", "t">>
W_light == <<"l", "i", "g", "h", "t">>
W_config == <<"c", "o", "n", "f", "i", "g">>

ON == <<"O", "N">>
OFF == <<"O", "F", "F">>
AvailTrue == <<"t", "r", "u", "e">>
AvailFalse == <<"f", "a", "l", "s", "e">>

topic_state(node_id, endpoint) ==
    Join(<<W_matter, IntStr(node_id), IntStr(endpoint), W_state>>)

topic_available(node_id, endpoint) ==
    Join(<<W_matter, IntStr(node_id), IntStr(endpoint), W_available>>)

ha_discovery_topic(node_id, endpoint) ==
    Join(<<W_homeassistant, W_light,
           W_matter \o <<"_">> \o IntStr(node_id) \o <<"_">> \o IntStr(endpoint),
           W_config>>)

command_topic(node_id, endpoint) ==
    Join(<<W_matter, IntStr(node_id), IntStr(endpoint), W_set>>)

\* the discovery descriptor of publish_ha_discovery: the topics it declares
DiscoveryPayload(ep) ==
    <<"discovery",
      topic_state(ep.node_id, ep.endpoint),
      command_topic(ep.node_id, ep.endpoint),
      topic_available(ep.node_id, ep.endpoint)>>

\* one publish_retained call
Pub(topic, payload) == [topic |-> topic, payload |-> payload]

\* publish_ha_discovery(ep)
publish_ha_discovery(ep) ==
    Pub(ha_discovery_topic(ep.node_id, ep.endpoint), DiscoveryPayload(ep))

RECURSIVE Retain(_, _)
\* the broker's retained store after the publishes pubs, in order
Retain(store, pubs) ==
    IF pubs = <<>> THEN store
    ELSE Retain(Put(store, pubs[1].topic, pubs[1].payload), Tail(pubs))

---------------------------------------------------------------------------
(* JSON values of a node snapshot: null, booleans, integers and strings.   *)

JNull == [t |-> "null", v |-> 0, s |-> <<>>]
JBool(b) == [t |-> "bool", v |-> IF b THEN 1 ELSE 0, s |-> <<>>]
JInt(n) == [t |-> "int", v |-> n, s |-> <<>>]
JStr(chars) == [t |-> "str", v |-> Len(chars), s |-> chars]

\* bool(v): None, False, 0 and "" are falsy, everything else is truthy
PyBool(j) == j.t # "null" /\ j.v # 0

\* int(v): int(None) raises TypeError, int("abc") raises ValueError
PyIntJ(j) ==
    IF j.t = "null" THEN [ok |-> FALSE, val |-> 0]
    ELSE IF j.t = "str" THEN PyInt(j.s)
    ELSE [ok |-> TRUE, val |-> j.v]

---------------------------------------------------------------------------
(* matter_helpers.py                                                       *)

\* _parse_attr_key: "<endpoint>/<cluster>/<attribute>" or None (ok = FALSE)
ParseAttrKey(key) ==
    LET parts == SplitN(key, 2)
    IN  IF Len(parts) # 3 THEN [ok |-> FALSE, ep |-> 0, cl |-> 0, at |-> 0]
        ELSE LET e == PyInt(parts[1])
                 c == PyInt(parts[2])
                 a == PyInt(parts[3])
             IN  [ok |-> e.ok /\ c.ok /\ a.ok, ep |-> e.val, cl |-> c.val, at |-> a.val]

RECURSIVE Sorted(_)
\* sorted(set of integers)
Sorted(S) ==
    IF S = {} THEN <<>>
    ELSE LET m == CHOOSE x \in S : \A y \in S : x <= y
         IN  <<m>> \o Sorted(S \ {m})

\* the endpoints of one node that have an attribute in the OnOff cluster
EndpointsWithOnOff(attrs) ==
    {ParseAttrKey(attrs[i].key).ep :
        i \in {j \in 1..Len(attrs) :
                 ParseAttrKey(attrs[j].key).ok
                 /\ ParseAttrKey(attrs[j].key).cl = ONOFF_CLUSTER_ID}}

\* onoff_state_by_ep.get(ep): the last "<ep>/6/0" attribute of the dict wins
OnOffStateOf(attrs, ep) ==
    LET hits == {i \in 1..Len(attrs) :
                   LET p == ParseAttrKey(attrs[i].key)
                   IN  p.ok /\ p.cl = ONOFF_CLUSTER_ID /\ p.ep = ep
                       /\ p.at = ONOFF_ATTRIBUTE_ID}
    IN  IF hits = {} THEN None
        ELSE Some(PyBool(attrs[CHOOSE i \in hits : \A j \in hits : j <= i].value))

\* extract_onoff_endpoints_from_node: raised = TRUE when int(node_id) raises
extract_onoff_endpoints_from_node(node) ==
    LET id == PyIntJ(node.node_id)
        available == PyBool(node.available)
        eps == Sorted(EndpointsWithOnOff(node.attributes))
    IN  IF ~id.ok THEN [raised |-> TRUE, infos |-> <<>>]
        ELSE [raised |-> FALSE,
              infos |-> [i \in 1..Len(eps) |->
                           [node_id |-> id.val, endpoint |-> eps[i],
                            available |-> available,
                            onoff |-> OnOffStateOf(node.attributes, eps[i])]]]

---------------------------------------------------------------------------
(* Matter2MQTT.refresh_snapshot                                            *)

\* key = (ep.node_id, ep.endpoint)
EndpointKey(ep) == <<ep.node_id, ep.endpoint>>

\* if self.last_avail.get(key) != ep.available
AvailabilityChanged(la, ep) == Get(la, EndpointKey(ep)) # Some(ep.available)

\* a faulty variant: the comparison with last_state is missing
OnOffChangedAlways(ls, ep) == ep.onoff # None

\* if ep.onoff is not None and self.last_state.get(key) != ep.onoff
OnOffChanged(ls, ep) == ep.onoff # None /\ Get(ls, EndpointKey(ep)) # ep.onoff

AvailPayload(available) == IF available THEN AvailTrue ELSE AvailFalse
StatePayload(onoff) == IF onoff THEN ON ELSE OFF

RECURSIVE ExtractAll(_)
\* for n in nodes: endpoints.extend(extract_onoff_endpoints_from_node(n))
ExtractAll(nodes) ==
    IF nodes = <<>> THEN [raised |-> FALSE, infos |-> <<>>]
    ELSE LET first == extract_onoff_endpoints_from_node(nodes[1])
             rest == ExtractAll(Tail(nodes))
         IN  IF first.raised \/ rest.raised THEN [raised |-> TRUE, infos |-> <<>>]
             ELSE [raised |-> FALSE, infos |-> first.infos \o rest.infos]

\* first loop: for ep in endpoints: self.publish_ha_discovery(ep)
DiscoveryPhase(endpoints) ==
    [i \in 1..Len(endpoints) |-> publish_ha_discovery(endpoints[i])]

\* second loop, availability part: check last_avail, commit, publish
AvailabilityStep(acc, ep) ==
    IF AvailabilityChanged(acc.last_avail, ep)
    THEN [acc EXCEPT !.last_avail = Put(@, EndpointKey(ep), ep.available),
                     !.pubs = Append(@, Pub(topic_available(ep.node_id, ep.endpoint),
                                            AvailPayload(ep.available)))]
    ELSE acc

\* a faulty variant: an availability publish of the endpoint forces its state publish
StateStepCoupled(acc, ep) ==
    LET availJust == acc.pubs # <<>>
                     /\ acc.pubs[Len(acc.pubs)].topic = topic_available(ep.node_id, ep.endpoint)
    IN  IF ep.onoff # None /\ (availJust \/ Get(acc.last_state, EndpointKey(ep)) # ep.onoff)
        THEN [acc EXCEPT !.last_state = Put(@, EndpointKey(ep), ep.onoff[1]),
                         !.pubs = Append(@, Pub(topic_state(ep.node_id, ep.endpoint),
                                                StatePayload(ep.onoff[1])))]
        ELSE acc

\* second loop, state part: check last_state, commit, publish
StateStep(acc, ep) ==
    IF OnOffChanged(acc.last_state, ep)
    THEN [acc EXCEPT !.last_state = Put(@, EndpointKey(ep), ep.onoff[1]),
                     !.pubs = Append(@, Pub(topic_state(ep.node_id, ep.endpoint),
                                            StatePayload(ep.onoff[1])))]
    ELSE acc

RECURSIVE PublishLoopStateFirst(_, _)
\* a faulty variant: the state of an endpoint is published before its availability
PublishLoopStateFirst(acc, endpoints) ==
    IF endpoints = <<>> THEN acc
    ELSE PublishLoopStateFirst(AvailabilityStep(StateStep(acc, endpoints[1]), endpoints[1]),
                               Tail(endpoints))

RECURSIVE PublishLoop(_, _)
\* second loop: for ep in endpoints: availability, then state, of that endpoint
PublishLoop(acc, endpoints) ==
    IF endpoints = <<>> THEN acc
    ELSE PublishLoop(StateStep(AvailabilityStep(acc, endpoints[1]), endpoints[1]),
                     Tail(endpoints))

\* a faulty variant: discovery is published only for endpoints last_avail does
\* not know yet
PublishAllDiscoveryGated(ex, ls, la) ==
    IF ex.raised \/ ex.infos = <<>>
    THEN [raised |-> ex.raised, endpoints |-> <<>>, pubs |-> <<>>,
          last_state |-> ls, last_avail |-> la]
    ELSE LET fresh == SelectSeq(ex.infos, LAMBDA ep : EndpointKey(ep) \notin DOMAIN la)
             out == PublishLoop([last_state |-> ls, last_avail |-> la,
                                 pubs |-> DiscoveryPhase(fresh)], ex.infos)
         IN  [raised |-> FALSE, endpoints |-> ex.infos, pubs |-> out.pubs,
              last_state |-> out.last_state, last_avail |-> out.last_avail]

\* refresh_snapshot from the extraction on: nothing when it raised or found no
\* endpoint, else the discovery loop and the availability/state loop
PublishAll(ex, ls, la) ==
    IF ex.raised \/ ex.infos = <<>>
    THEN [raised |-> ex.raised, endpoints |-> <<>>, pubs |-> <<>>,
          last_state |-> ls, last_avail |-> la]
    ELSE LET out == PublishLoop([last_state |-> ls, last_avail |-> la,
                                 pubs |-> DiscoveryPhase(ex.infos)], ex.infos)
         IN  [raised |-> FALSE, endpoints |-> ex.infos, pubs |-> out.pubs,
              last_state |-> out.last_state, last_avail |-> out.last_avail]

\* refresh_snapshot once snapshot_nodes() has returned nodes
RefreshBody(nodes, ls, la) == PublishAll(ExtractAll(nodes), ls, la)

---------------------------------------------------------------------------
(* Snapshots the Matter server may answer start_listening with.            *)

AttrKey(ep, cl, at) == Join(<<IntStr(ep), IntStr(cl), IntStr(at)>>)
Attr(key, value) == [key |-> key, value |-> value]

Node(id, available, attrs) == [node_id |-> id, available |-> available, attributes |-> attrs]

\* node 1 with endpoint 1 on; node 1 unavailable with endpoint 1 on and endpoint 2
\* without the OnOff attribute; node 1 with endpoint 2 on (listed first), endpoint
\* 1 off, a malformed key and another cluster; node 2 with endpoint 1 off
GoodNodes ==
    { Node(JInt(1), JBool(TRUE), <<Attr(AttrKey(1, 6, 0), JBool(TRUE))>>),
      Node(JInt(1), JBool(FALSE),
           <<Attr(AttrKey(1, 6, 0), JBool(TRUE)), Attr(AttrKey(2, 6, 16384), JInt(0))>>),
      Node(JInt(1), JBool(TRUE),
           <<Attr(AttrKey(2, 6, 0), JBool(TRUE)), Attr(AttrKey(1, 6, 0), JBool(FALSE)),
             Attr(<<"1", "/", "6">>, JBool(TRUE)), Attr(AttrKey(3, 3, 0), JBool(TRUE))>>),
      Node(JInt(2), JBool(TRUE), <<Attr(AttrKey(1, 6, 0), JBool(FALSE))>>) }

\* a node whose node_id is missing: int(None) raises
BadNode == Node(JNull, JBool(TRUE), <<Attr(AttrKey(1, 6, 0), JBool(TRUE))>>)

NodeSnapshots == GoodNodes \cup {BadNode}

RECURSIVE SeqsUpTo(_, _)
\* the sequences over S of length at most n
SeqsUpTo(S, n) ==
    IF n = 0 THEN {<<>>}
    ELSE LET shorter == SeqsUpTo(S, n - 1)
         IN  shorter \cup {Append(q, x) : q \in shorter, x \in S}

Snapshots == SeqsUpTo(NodeSnapshots, MaxNodes)

---------------------------------------------------------------------------
(* mqtt_bridge.py: MqttBridge._on_message                                  *)

PayloadsOn1 == {<<"O", "N">>, <<"1">>, <<"T", "R", "U", "E">>}
PayloadsOff0 == {<<"O", "F", "F">>, <<"0">>, <<"F", "A", "L", "S", "E">>}
PayloadsToggle == {<<"T", "O", "G", "G", "L", "E">>, <<"T">>}

\* payload = msg.payload.decode().strip().upper()
NormalPayload(payload) == Upper(Strip(payload))

\* the if/elif chain on the payload: the action, or "" for the final else
PayloadAction(payload) ==
    IF payload \in PayloadsOn1 THEN "on"
    ELSE IF payload \in PayloadsOff0 THEN "off"
    ELSE IF payload \in PayloadsToggle THEN "toggle"
    ELSE ""

\* a faulty variant: longer topics pass the shape test
TopicShapeLoose(parts) == Len(parts) >= 4 /\ parts[1] = W_matter /\ parts[4] = W_set

\* if len(parts) != 4 or parts[0] != "matter" or parts[3] != "set": return
TopicShapeOk(parts) == Len(parts) = 4 /\ parts[1] = W_matter /\ parts[4] = W_set

\* except Exception as e: logger.error(...) around the whole body
OnMessageCatches(raised) == TRUE

\* the body of _on_message: the command it hands to call_soon_threadsafe, if any,
\* and whether an exception leaves the callback
ParseMessage(msg) ==
    LET parts == Split(msg.topic)
        payload == NormalPayload(msg.payload)
        node_id == PyInt(parts[2])
        endpoint == PyInt(parts[3])
        action == PayloadAction(payload)
        nothing == [cmds |-> <<>>, escaped |-> FALSE]
    IN  IF ~TopicShapeOk(parts) THEN nothing
        ELSE IF ~node_id.ok \/ ~endpoint.ok
             THEN [cmds |-> <<>>, escaped |-> ~OnMessageCatches(TRUE)]
        ELSE IF action = "" THEN nothing
        ELSE [cmds |-> <<[node_id |-> node_id.val, endpoint |-> endpoint.val,
                          action |-> action]>>,
              escaped |-> FALSE]

\* the commands of cmds numbered from rx + 1 in their order of arrival
Numbered(cmds) ==
    [i \in 1..Len(cmds) |->
        [id |-> rx + i, node_id |-> cmds[i].node_id, endpoint |-> cmds[i].endpoint,
         action |-> cmds[i].action]]

\* a faulty variant: the newest callback runs first
CallSoonFront(callbacks, cmds) == cmds \o callbacks

\* self.loop.call_soon_threadsafe(self.cmd_queue.put_nowait, cmd)
CallSoon(callbacks, cmds) == callbacks \o cmds

\* _on_message(msg) on the MQTT thread
OnMessage(msg) ==
    LET r == ParseMessage(msg)
    IN  /\ rx + Len(r.cmds) <= MaxCmds
        /\ scheduled' = CallSoon(scheduled, Numbered(r.cmds))
        /\ rx' = rx + Len(r.cmds)

\* the event loop runs the oldest scheduled callback: cmd_queue.put_nowait(cmd)
RunCallback ==
    /\ scheduled # <<>>
    /\ cmd_queue' = Append(cmd_queue, Head(scheduled))
    /\ scheduled' = Tail(scheduled)

Msg(topic, payload) == [topic |-> topic, payload |-> payload]

\* payloads sent to a command topic: the three families in several cases, with
\* surrounding whitespace, and unrecognised ones
PayloadSamples ==
    { <<"O", "N">>, <<"o", "n">>, <<"O", "n">>, <<"1">>, <<"t", "r", "u", "e">>,
      <<"O", "F", "F">>, <<"0">>, <<"F", "a", "l", "s", "e">>,
      <<"t", "o", "g", "g", "l", "e">>, <<"t">>, <<"T">>,
      <<" ", "o", "n", "\n">>, <<"o", "f", "f", "\n">>,
      <<"b", "l", "o", "r", "p">>, <<>>, <<"2">>, <<"o", " ", "n">> }

\* topics that are not matter/<node>/<endpoint>/set with plain decimal ids
OddTopics ==
    { Join(<<W_matter, <<"1">>, <<"1">>, W_set, <<>>>>),
      Join(<<W_matter, <<"1">>, W_set>>),
      Join(<<W_matter, <<"1">>, <<"1">>, W_state>>),
      Join(<<W_light, <<"1">>, <<"1">>, W_set>>),
      Join(<<Upper(W_matter), <<"1">>, <<"1">>, W_set>>),
      Join(<<W_matter, <<"x">>, <<"1">>, W_set>>),
      Join(<<W_matter, <<"1">>, <<>>, W_set>>),
      Join(<<W_matter, <<"1">>, <<"1", ".", "0">>, W_set>>),
      Join(<<W_matter, <<" ", "1">>, <<"2">>, W_set>>),
      Join(<<W_matter, <<"-", "1">>, <<"0", "2">>, W_set>>) }

Messages ==
    { Msg(command_topic(1, 1), p) : p \in PayloadSamples }
    \cup { Msg(command_topic(12, 3), p) : p \in {<<"o", "n">>, <<"O", "F", "F">>} }
    \cup { Msg(t, <<"O", "N">>) : t \in OddTopics }

---------------------------------------------------------------------------
(* The ingress specification: messages arrive on the MQTT thread and the   *)
(* loop runs the callbacks they schedule.                                  *)

\* _on_message is called with a message of Messages
Receive ==
    \E msg \in Messages :
        /\ OnMessage(msg)
        /\ lastMsg' = <<[msg |-> msg, result |-> ParseMessage(msg)]>>
        /\ UNCHANGED <<running, last_state, last_avail, retained, published, observed, snapshot, tick,
                       cmd_queue, bridgeVars>>

\* the loop puts the oldest scheduled command on the queue
Deliver ==
    /\ RunCallback
    /\ UNCHANGED <<running, last_state, last_avail, retained, published, observed, snapshot, tick,
                   lastMsg, rx, bridgeVars>>

---------------------------------------------------------------------------
(* The refresh specification: refresh_snapshot cycles over the snapshots.  *)

otherThanRefresh == <<running, tick, lastMsg, scheduled, cmd_queue, rx, bridgeVars>>

InitBridge ==
    /\ running = TRUE
    /\ last_state = EmptyDict
    /\ last_avail = EmptyDict
    /\ retained = EmptyDict
    /\ published = <<>>
    /\ observed = <<>>
    /\ snapshot = <<>>
    /\ tick = "none"
    /\ lastMsg = <<>>
    /\ scheduled = <<>>
    /\ cmd_queue = <<>>
    /\ rx = 0
    /\ mqtt = "new"
    /\ ws = "None"
    /\ client = "None"
    /\ session = FALSE
    /\ lock = "free"
    /\ connectCalls = {}
    /\ importable \in BOOLEAN
    /\ pc = [p \in Procs |-> IF p = "runner" THEN "start"
                             ELSE IF p \in Tasks THEN "absent" ELSE "idle"]
    /\ cancelReq = {}
    /\ outcome = [t \in Tasks |-> "none"]
    /\ cur = <<>>
    /\ trace = <<>>
    /\ sent = <<>>
    /\ closeLog = <<>>
    /\ closeFailed = {}
    /\ startLog = <<>>
    /\ startError = "none"
    /\ stopResult = [c \in Callers |-> "none"]
    /\ signals = 0

\* what extract_onoff_endpoints_from_node makes of the snapshots of Snapshots
Extractions == {ExtractAll(nodes) : nodes \in Snapshots}

\* refresh_snapshot from the extraction ex of the nodes it was answered with
\* to its end
Refreshed(ex) ==
    \E r \in {PublishAll(ex, last_state, last_avail)} :
        /\ last_state' = r.last_state
        /\ last_avail' = r.last_avail
        /\ retained' = Retain(retained, r.pubs)
        /\ published' = r.pubs
        /\ observed' = r.endpoints
        /\ UNCHANGED otherThanRefresh

\* one refresh_snapshot whose snapshot_nodes() returned a snapshot of Snapshots
RefreshCycle ==
    \E ex \in Extractions : Refreshed(ex) /\ UNCHANGED snapshot

SpecRefresh == InitBridge /\ [][RefreshCycle]_vars

\* the snapshots of Snapshots, each with its extraction
SnapshotExtractions == {[nodes |-> nodes, ex |-> ExtractAll(nodes)] : nodes \in Snapshots}

\* one refresh_snapshot, the nodes it was answered with kept in snapshot
RefreshNodes ==
    \E se \in SnapshotExtractions : Refreshed(se.ex) /\ snapshot' = se.nodes

SpecBatch == InitBridge /\ [][RefreshNodes]_vars

SpecIngress == InitBridge /\ [][Receive \/ Deliver]_vars

---------------------------------------------------------------------------
(* The bridge: the runner of matter2mqtt.main, Matter2MQTT.start and stop,  *)
(* the periodic refresh task, the command consumer task, the commander and  *)
(* the MQTT thread.  An action is one step of a coroutine from one          *)
(* suspension point to the next; pc holds where each coroutine is suspended.*)
(* asyncio.CancelledError derives from BaseException, so an                 *)
(* `except Exception` lets it pass.                                         *)

dataVars == <<last_state, last_avail, retained, published, observed, snapshot, tick, lastMsg>>
queueVars == <<scheduled, cmd_queue, rx>>
cmdrVars == <<client, session, lock, connectCalls>>
consumerLog == <<cur, trace, sent>>
closeVars == <<closeLog, closeFailed>>
stopVars == <<running, cancelReq, pc, stopResult>>

Created(t) == pc[t] # "absent"
Done(t) == pc[t] = "done"
Pending(t) == Created(t) /\ ~Done(t)

\* an event of the consumer's trace
Ev(name) == [e |-> name, topic |-> <<>>, payload |-> <<>>]
PubEv(pub) == [e |-> "publish", topic |-> pub.topic, payload |-> pub.payload]

\* snapshots answered to the running bridge: endpoint 1/1 on; endpoint 1/1 off;
\* a node without node_id
BridgeNodes ==
    { Node(JInt(1), JBool(TRUE), <<Attr(AttrKey(1, 6, 0), JBool(TRUE))>>),
      Node(JInt(1), JBool(TRUE), <<Attr(AttrKey(1, 6, 0), JBool(FALSE))>>),
      BadNode }

\* how an awaited snapshot_nodes() ends: with nodes, with an error (timeout,
\* bad frame), or with the "closing transport" error of a closing socket
FetchResults ==
    { [kind |-> k, ex |-> ExtractAll(IF k = "nodes" THEN <<n>> ELSE <<>>)] :
        k \in {"nodes", "error", "noise"}, n \in BridgeNodes }

\* refresh_snapshot raises when snapshot_nodes or the extraction raised
RefreshRaised(out) == out.kind # "nodes" \/ out.ex.raised

\* how a refresh_snapshot with that answer ends: "ok", or with the exception
\* of snapshot_nodes ("error", "noise") or of the extraction ("error")
RefreshEnd(out) ==
    IF out.kind # "nodes" THEN out.kind ELSE IF out.ex.raised THEN "error" ELSE "ok"

\* a faulty variant: every refresh failure is taken for transport noise
IsTransportNoiseAlways(end) == end # "ok"

\* the periodic task's `"closing transport" in msg`
IsTransportNoise(end) == end = "noise"

\* the rest of refresh_snapshot after snapshot_nodes() returned
ApplyRefresh(out) ==
    \E r \in {PublishAll(out.ex, last_state, last_avail)} :
        /\ last_state' = r.last_state
        /\ last_avail' = r.last_avail
        /\ retained' = Retain(retained, r.pubs)

\* messages sent to the running bridge
BridgeMessages ==
    { Msg(command_topic(1, 1), <<"O", "N">>), Msg(command_topic(1, 2), <<"t">>),
      Msg(command_topic(1, 1), <<"b", "l", "o", "r", "p">>) }

\* how an awaited send_device_command ends: answered, refused because the
\* client lost (or never had) its connection, or failed otherwise (a timeout
\* of wait_for, an error of the device)
SendResults(cl) ==
    IF cl = "connected" THEN {"ok", "lost", "error"} ELSE {"lost", "error"}

\* a faulty variant: every connection loss is answered with a reconnect
NeedsReconnectAlways(attempt, res) == res = "lost"

\* a faulty variant: every failure of the first send is answered with a reconnect
NeedsReconnectAnyFailure(attempt, res) == attempt = 1

\* set_onoff's except branch: `"Not connected" in str(e) or "InvalidState" in
\* type(e).__name__` around the first send; the retry has no handler
NeedsReconnect(attempt, res) == attempt = 1 /\ res = "lost"

\* a faulty variant: no optimistic publish
OptimisticPublishNone(cmd) == <<>>

\* a faulty variant: a toggle is published as ON
OptimisticPublishEveryAction(cmd) ==
    <<Pub(topic_state(cmd.node_id, cmd.endpoint), StatePayload(cmd.action # "off"))>>

\* the consumer's optimistic publish: `if cmd.action in ("on", "off")`
OptimisticPublish(cmd) ==
    IF cmd.action \in {"on", "off"}
    THEN <<Pub(topic_state(cmd.node_id, cmd.endpoint), StatePayload(cmd.action = "on"))>>
    ELSE <<>>

\* a faulty variant: _reconnect_and_retry keeps the old client
ForgetClientNot(cl) == cl

\* _reconnect_and_retry's `self.client = None` before it calls connect()
ForgetClient(cl) == "None"

\* a call of MatterCommander.connect() by a coroutine that holds client cl:
\* connect() takes no lock and does not look at the client it replaces
ConnectCall(by, cl) == [by |-> by, client |-> cl, lock |-> lock]

\* a faulty variant: stop() without its guard
StopNeverReturnsEarly(r) == FALSE

\* stop's `if not self.running: return`
StopReturnsEarly(r) == ~r

\* a faulty variant: a failing close leaves stop()
CloseCatchesNothing(kind) == FALSE

\* stop's `except Exception` around each close
CloseCatches(kind) == kind = "Exception"

\* a faulty variant: start() without the handler around matter_cmd.connect()
StartCatchesNothing(kind) == FALSE

\* start's `except Exception` around `await self.matter_cmd.connect()`
StartCatches(kind) == kind = "Exception"

\* the first part of stop(), up to its first await; creq is the set of
\* cancellation requests at the call
EnterStop(caller, creq) ==
    IF StopReturnsEarly(running)
    THEN /\ pc' = [pc EXCEPT ![caller] = "done"]
         /\ stopResult' = [stopResult EXCEPT ![caller] = "returned"]
         /\ cancelReq' = creq
         /\ UNCHANGED running
    ELSE /\ running' = FALSE
         /\ cancelReq' = creq \cup {t \in Tasks : Pending(t)}
         /\ pc' = [pc EXCEPT ![caller] = "stop_wait"]
         /\ stopResult' = [stopResult EXCEPT ![caller] = "running"]

\* stop() resumes when the awaited tasks are done: mqtt.close(), then
\* `await self.matter_ws.close()`
StopTasksDone(c) ==
    /\ pc[c] = "stop_wait"
    /\ c \notin cancelReq
    /\ \A t \in Tasks : ~Pending(t)
    /\ \E failed \in BOOLEAN :
        /\ mqtt' = IF failed THEN mqtt ELSE "closed"
        /\ closeFailed' = IF failed THEN closeFailed \cup {"mqtt"} ELSE closeFailed
        /\ IF failed /\ ~CloseCatches("Exception")
           THEN /\ closeLog' = Append(closeLog, "mqtt")
                /\ pc' = [pc EXCEPT ![c] = "done"]
                /\ stopResult' = [stopResult EXCEPT ![c] = "Exception"]
           ELSE /\ closeLog' = closeLog \o <<"mqtt", "ws">>
                /\ pc' = [pc EXCEPT ![c] = "stop_ws"]
                /\ UNCHANGED stopResult
    /\ UNCHANGED <<running, cancelReq, dataVars, queueVars, ws, cmdrVars, importable,
                   outcome, consumerLog, startLog, startError, signals>>

\* matter_ws.close() ended: `await self.matter_cmd.close()`
StopWsClosed(c) ==
    /\ pc[c] = "stop_ws"
    /\ c \notin cancelReq
    /\ \E failed \in BOOLEAN :
        /\ ws' = IF failed \/ ws = "None" THEN ws ELSE "closed"
        /\ closeFailed' = IF failed THEN closeFailed \cup {"ws"} ELSE closeFailed
        /\ IF failed /\ ~CloseCatches("Exception")
           THEN /\ pc' = [pc EXCEPT ![c] = "done"]
                /\ stopResult' = [stopResult EXCEPT ![c] = "Exception"]
                /\ UNCHANGED closeLog
           ELSE /\ closeLog' = Append(closeLog, "cmd")
                /\ pc' = [pc EXCEPT ![c] = "stop_cmd"]
                /\ UNCHANGED stopResult
    /\ UNCHANGED <<running, cancelReq, dataVars, queueVars, mqtt, cmdrVars, importable,
                   outcome, consumerLog, startLog, startError, signals>>

\* matter_cmd.close() ended: whether or not client.disconnect() raised, its
\* finally clause forgot the client and closed the session; stop() returns
StopCmdClosed(c) ==
    /\ pc[c] = "stop_cmd"
    /\ c \notin cancelReq
    /\ \E failed \in BOOLEAN :
        /\ client' = "None"
        /\ session' = FALSE
        /\ closeFailed' = IF failed THEN closeFailed \cup {"cmd"} ELSE closeFailed
        /\ pc' = [pc EXCEPT ![c] = "done"]
        /\ stopResult' = [stopResult EXCEPT
                            ![c] = IF failed /\ ~CloseCatches("Exception")
                                   THEN "Exception" ELSE "returned"]
    /\ UNCHANGED <<running, cancelReq, dataVars, queueVars, mqtt, ws, lock, connectCalls, importable,
                   outcome, consumerLog, closeLog, startLog, startError, signals>>

\* a second call of stop(), made once the runner's call has begun
AgainCalls ==
    /\ pc["again"] = "idle"
    /\ stopResult["runner"] # "none"
    /\ EnterStop("again", cancelReq)
    /\ UNCHANGED <<dataVars, queueVars, mqtt, ws, cmdrVars, importable, outcome,
                   consumerLog, closeVars, startLog, startError, signals>>

\* start() after matter_cmd.connect() raised: log a warning and go on to the
\* first refresh
CmdConnectFailed(log) ==
    IF StartCatches("Exception")
    THEN /\ startLog' = Append(log, "cmd_failed")
         /\ pc' = [pc EXCEPT !["runner"] = "refresh"]
         /\ UNCHANGED <<running, cancelReq, stopResult, startError>>
    ELSE /\ startLog' = log
         /\ startError' = "cmd"
         /\ EnterStop("runner", cancelReq)

\* runner: start() calls mqtt.connect(), then awaits matter_ws.connect(); a
\* failure leaves start() and the finally clause calls stop()
RunnerStart ==
    /\ pc["runner"] = "start"
    /\ \E ok \in BOOLEAN :
        IF ok
        THEN /\ mqtt' = "started"
             /\ startLog' = Append(startLog, "mqtt")
             /\ pc' = [pc EXCEPT !["runner"] = "ws_connect"]
             /\ UNCHANGED <<running, cancelReq, stopResult, startError>>
        ELSE /\ startError' = "mqtt"
             /\ EnterStop("runner", cancelReq)
             /\ UNCHANGED <<mqtt, startLog>>
    /\ UNCHANGED <<dataVars, queueVars, ws, cmdrVars, importable, outcome, consumerLog,
                   closeVars, signals>>

\* matter_ws.connect() ended; start() goes on to matter_cmd.connect(), which
\* raises at once when MatterClient could not be imported
RunnerWsConnected ==
    /\ pc["runner"] = "ws_connect"
    /\ "runner" \notin cancelReq
    /\ \E ok \in BOOLEAN :
        IF ~ok
        THEN /\ startError' = "ws"
             /\ EnterStop("runner", cancelReq)
             /\ UNCHANGED <<ws, client, session, startLog>>
             /\ UNCHANGED connectCalls
        ELSE /\ ws' = "open"
             /\ connectCalls' = connectCalls \cup {ConnectCall("runner", client)}
             /\ IF importable
                THEN /\ session' = TRUE
                     /\ client' = "new"
                     /\ startLog' = Append(startLog, "ws")
                     /\ pc' = [pc EXCEPT !["runner"] = "cmd_connect"]
                     /\ UNCHANGED <<running, cancelReq, stopResult, startError>>
                ELSE /\ CmdConnectFailed(Append(startLog, "ws"))
                     /\ UNCHANGED <<client, session>>
    /\ UNCHANGED <<dataVars, queueVars, mqtt, lock, importable, outcome, consumerLog,
                   closeVars, signals>>

\* the commander's client.connect() ended; start() awaits the first
\* refresh_snapshot()
RunnerCmdConnected ==
    /\ pc["runner"] = "cmd_connect"
    /\ "runner" \notin cancelReq
    /\ \E ok \in BOOLEAN :
        IF ok
        THEN /\ client' = "connected"
             /\ startLog' = Append(startLog, "cmd_ok")
             /\ pc' = [pc EXCEPT !["runner"] = "refresh"]
             /\ UNCHANGED <<running, cancelReq, stopResult, startError>>
        ELSE /\ CmdConnectFailed(startLog)
             /\ UNCHANGED client
    /\ UNCHANGED <<dataVars, queueVars, mqtt, ws, session, lock, connectCalls, importable, outcome,
                   consumerLog, closeVars, signals>>

\* the first refresh_snapshot() ended; start() creates the two tasks and
\* awaits gather
RunnerRefreshed ==
    \E out \in FetchResults :
        /\ pc["runner"] = "refresh"
        /\ "runner" \notin cancelReq
        /\ IF RefreshRaised(out)
           THEN /\ startError' = "refresh"
                /\ EnterStop("runner", cancelReq)
                /\ UNCHANGED <<last_state, last_avail, retained, startLog>>
           ELSE /\ ApplyRefresh(out)
                /\ startLog' = Append(startLog, "refresh")
                /\ pc' = [pc EXCEPT !["runner"] = "gather", !["refresh"] = "created",
                                    !["consumer"] = "created"]
                /\ UNCHANGED <<running, cancelReq, stopResult, startError>>
        /\ UNCHANGED <<published, observed, snapshot, tick, lastMsg, queueVars, mqtt, ws, cmdrVars,
                       importable, outcome, consumerLog, closeVars, signals>>

\* SIGINT or SIGTERM: _shutdown cancels the runner task unless it is done; the
\* cancellation reaches the tasks the runner awaits through gather
Signal ==
    /\ signals < MaxSignals
    /\ pc["runner"] \notin {"start", "done"}
    /\ signals' = signals + 1
    /\ cancelReq' = cancelReq \cup {"runner"}
                    \cup (IF pc["runner"] = "gather" THEN {t \in Tasks : Pending(t)} ELSE {})
    /\ UNCHANGED <<running, pc, stopResult, dataVars, queueVars, mqtt, ws, cmdrVars,
                   importable, outcome, consumerLog, closeVars, startLog, startError>>

\* the runner is cancelled inside start(): CancelledError passes start's
\* handlers, the runner catches it and its finally clause calls stop()
RunnerCancelledInStart ==
    /\ "runner" \in cancelReq
    /\ pc["runner"] \in {"ws_connect", "cmd_connect", "refresh"}
    /\ EnterStop("runner", cancelReq \ {"runner"})
    /\ UNCHANGED <<startLog, startError>>
    /\ UNCHANGED <<dataVars, queueVars, mqtt, ws, cmdrVars, importable, outcome,
                   consumerLog, closeVars, signals>>

\* gather ends: with CancelledError once the cancelled tasks are done, with the
\* exception of a task that failed, or normally when both tasks returned; in
\* each case the runner's finally clause calls stop()
RunnerGatherEnds ==
    /\ pc["runner"] = "gather"
    /\ IF "runner" \notin cancelReq /\ \E t \in Tasks : Done(t) /\ outcome[t] # "returned"
       THEN TRUE
       ELSE \A t \in Tasks : Done(t)
    /\ startError' = IF \E t \in Tasks : outcome[t] = "error" THEN "task" ELSE startError
    /\ EnterStop("runner", cancelReq \ {"runner"})
    /\ UNCHANGED <<dataVars, queueVars, mqtt, ws, cmdrVars, importable, outcome,
                   consumerLog, closeVars, startLog, signals>>

\* the runner is cancelled while stop() awaits a task: stop() passes over the
\* CancelledError
RunnerCancelledInStopWait ==
    /\ "runner" \in cancelReq
    /\ pc["runner"] = "stop_wait"
    /\ cancelReq' = cancelReq \ {"runner"}
    /\ UNCHANGED <<pc, stopResult>>
    /\ UNCHANGED <<running, dataVars, queueVars, mqtt, ws, cmdrVars, importable, outcome,
                   consumerLog, closeVars, startLog, startError, signals>>

\* the runner is cancelled while stop() awaits a close: CancelledError leaves
\* stop() and the runner; in matter_cmd.close() the finally clause still runs
RunnerCancelledInClose ==
    /\ "runner" \in cancelReq
    /\ pc["runner"] \in {"stop_ws", "stop_cmd"}
    /\ cancelReq' = cancelReq \ {"runner"}
    /\ IF pc["runner"] = "stop_cmd"
       THEN client' = "None" /\ session' = FALSE
       ELSE UNCHANGED <<client, session>>
    /\ pc' = [pc EXCEPT !["runner"] = "done"]
    /\ stopResult' = [stopResult EXCEPT !["runner"] = "CancelledError"]
    /\ UNCHANGED <<running, dataVars, queueVars, mqtt, ws, lock, connectCalls, importable, outcome,
                   consumerLog, closeVars, startLog, startError, signals>>

\* a cancelled task ends at its suspension point (or before its first step);
\* `async with self._lock` releases the lock on the way out
TaskCancelled(t) ==
    /\ t \in cancelReq
    /\ Pending(t)
    /\ cancelReq' = cancelReq \ {t}
    /\ outcome' = [outcome EXCEPT ![t] = IF pc[t] = "created" THEN "unstarted"
                                         ELSE "cancelled"]
    /\ pc' = [pc EXCEPT ![t] = "done"]
    /\ lock' = IF lock = t THEN "free" ELSE lock
    /\ UNCHANGED <<running, stopResult, dataVars, queueVars, mqtt, ws, client, session, connectCalls,
                   importable, consumerLog, closeVars, startLog, startError, signals>>

\* the loop test `while self.running` of a task: where it goes next
LoopOr(t, again) ==
    /\ pc' = [pc EXCEPT ![t] = IF running THEN again ELSE "done"]
    /\ outcome' = [outcome EXCEPT ![t] = IF running THEN @ ELSE "returned"]

\* periodic_refresh_task starts: `while self.running: await asyncio.sleep(...)`
RefreshTaskStart ==
    /\ pc["refresh"] = "created"
    /\ "refresh" \notin cancelReq
    /\ LoopOr("refresh", "sleep")
    /\ UNCHANGED <<running, cancelReq, stopResult, dataVars, queueVars, mqtt, ws, cmdrVars,
                   importable, consumerLog, closeVars, startLog, startError, signals>>

\* the sleep ends: `if not self.running: break`, else refresh_snapshot() up to the
\* await in send_command, which raises at once without a socket
RefreshTaskWake ==
    /\ pc["refresh"] = "sleep"
    /\ "refresh" \notin cancelReq
    /\ IF ~running
       THEN /\ pc' = [pc EXCEPT !["refresh"] = "done"]
            /\ outcome' = [outcome EXCEPT !["refresh"] = "returned"]
       ELSE IF ws = "None"
            THEN LoopOr("refresh", "sleep")
            ELSE /\ pc' = [pc EXCEPT !["refresh"] = "fetch"]
                 /\ UNCHANGED outcome
    /\ UNCHANGED <<running, cancelReq, stopResult, dataVars, queueVars, mqtt, ws, cmdrVars,
                   importable, consumerLog, closeVars, startLog, startError, signals>>

\* snapshot_nodes() ended in the periodic task: the rest of refresh_snapshot, or
\* the task's handler, which leaves the loop on "closing transport"
RefreshTaskFetched ==
    \E out \in FetchResults :
        /\ pc["refresh"] = "fetch"
        /\ "refresh" \notin cancelReq
        /\ tick' = RefreshEnd(out)
        /\ IF RefreshRaised(out)
           THEN /\ IF ~running \/ IsTransportNoise(RefreshEnd(out))
                   THEN /\ pc' = [pc EXCEPT !["refresh"] = "done"]
                        /\ outcome' = [outcome EXCEPT !["refresh"] = "returned"]
                   ELSE LoopOr("refresh", "sleep")
                /\ UNCHANGED <<last_state, last_avail, retained>>
           ELSE /\ ApplyRefresh(out)
                /\ LoopOr("refresh", "sleep")
        /\ UNCHANGED <<running, cancelReq, stopResult, published, observed, snapshot, lastMsg, queueVars,
                       mqtt, ws, cmdrVars, importable, consumerLog, closeVars, startLog,
                       startError, signals>>

\* a faulty variant: the consumer without its handler
ConsumerCatchesNothing(kind) == FALSE

\* the consumer's `except Exception` around the dispatch of a command
ConsumerCatches(kind) == kind = "Exception"

\* an exception raised in the dispatch of a command: the handler logs it and
\* the loop goes on; uncaught, it ends the task
ConsumerRaised ==
    IF ConsumerCatches("Exception")
    THEN LoopOr("consumer", "get")
    ELSE /\ pc' = [pc EXCEPT !["consumer"] = "done"]
         /\ outcome' = [outcome EXCEPT !["consumer"] = "error"]

\* command_consumer_task starts: `while self.running: await self.cmd_queue.get()`
ConsumerStart ==
    /\ pc["consumer"] = "created"
    /\ "consumer" \notin cancelReq
    /\ LoopOr("consumer", "get")
    /\ UNCHANGED <<running, cancelReq, stopResult, dataVars, queueVars, mqtt, ws, cmdrVars,
                   importable, consumerLog, closeVars, startLog, startError, signals>>

\* cmd_queue.get() returns the oldest command: the optimistic publish, the test
\* of matter_cmd.client, and set_onoff up to the await of the first send
\* (ensure_connected finds a client and does not await)
ConsumerGet ==
    /\ pc["consumer"] = "get"
    /\ "consumer" \notin cancelReq
    /\ cmd_queue # <<>>
    /\ \E cmd \in {Head(cmd_queue)} :
        \E pubs \in {OptimisticPublish(cmd)} :
            /\ cmd_queue' = Tail(cmd_queue)
            /\ cur' = <<cmd>>
            /\ retained' = Retain(retained, pubs)
            /\ IF client = "None"
               THEN /\ trace' = [i \in 1..Len(pubs) |-> PubEv(pubs[i])] \o <<Ev("raise")>>
                    /\ ConsumerRaised
                    /\ UNCHANGED sent
               ELSE /\ lock = "free"
                    /\ trace' = [i \in 1..Len(pubs) |-> PubEv(pubs[i])] \o <<Ev("send")>>
                    /\ sent' = Append(sent, cmd.id)
                    /\ pc' = [pc EXCEPT !["consumer"] = "send1"]
                    /\ UNCHANGED outcome
    /\ UNCHANGED <<running, cancelReq, stopResult, last_state, last_avail, published,
                   observed, snapshot, tick, lastMsg, scheduled, rx, mqtt, ws, cmdrVars, importable,
                   closeVars, startLog, startError, signals>>

\* a send ended.  Success: set_onoff returns and the consumer sleeps.  A lost
\* connection on the first send: _reconnect_and_retry takes the lock and awaits
\* client.disconnect().  Otherwise the error reaches the consumer's handler.
ConsumerSendDone ==
    /\ pc["consumer"] \in {"send1", "send2"}
    /\ "consumer" \notin cancelReq
    /\ \E res \in SendResults(client) :
        IF res = "ok"
        THEN /\ trace' = trace \o <<Ev("ok"), Ev("sleep")>>
             /\ pc' = [pc EXCEPT !["consumer"] = "settle"]
             /\ UNCHANGED <<outcome, lock>>
        ELSE IF NeedsReconnect(IF pc["consumer"] = "send1" THEN 1 ELSE 2, res)
        THEN /\ lock = "free"
             /\ lock' = "consumer"
             /\ trace' = trace \o <<Ev(res), Ev("disconnect")>>
             /\ pc' = [pc EXCEPT !["consumer"] = "disconnect"]
             /\ UNCHANGED outcome
        ELSE /\ trace' = trace \o <<Ev(res), Ev("raise")>>
             /\ ConsumerRaised
             /\ UNCHANGED lock
    /\ UNCHANGED <<running, cancelReq, stopResult, dataVars, queueVars, mqtt, ws, client, connectCalls,
                   session, importable, cur, sent, closeVars, startLog, startError, signals>>

\* client.disconnect() ended (an error is only logged): the client is forgotten
\* and connect() makes a new one and awaits its connect()
ConsumerDisconnected ==
    /\ pc["consumer"] = "disconnect"
    /\ "consumer" \notin cancelReq
    /\ connectCalls' = connectCalls \cup {ConnectCall("consumer", ForgetClient(client))}
    /\ IF importable
       THEN /\ client' = "new"
            /\ session' = TRUE
            /\ trace' = Append(trace, Ev("connect"))
            /\ pc' = [pc EXCEPT !["consumer"] = "reconnect"]
            /\ UNCHANGED <<outcome, lock>>
       ELSE /\ client' = ForgetClient(client)
            /\ lock' = "free"
            /\ trace' = trace \o <<Ev("connect_failed"), Ev("raise")>>
            /\ ConsumerRaised
            /\ UNCHANGED session
    /\ UNCHANGED <<running, cancelReq, stopResult, dataVars, queueVars, mqtt, ws,
                   importable, cur, sent, closeVars, startLog, startError, signals>>

\* the new client's connect() ended: the lock is released; on success the send
\* is retried, on failure the error reaches the consumer's handler
ConsumerReconnected ==
    /\ pc["consumer"] = "reconnect"
    /\ "consumer" \notin cancelReq
    /\ lock' = "free"
    /\ \E ok \in BOOLEAN :
        IF ok
        THEN /\ client' = "connected"
             /\ trace' = trace \o <<Ev("connected"), Ev("send")>>
             /\ sent' = Append(sent, cur[1].id)
             /\ pc' = [pc EXCEPT !["consumer"] = "send2"]
             /\ UNCHANGED outcome
        ELSE /\ trace' = trace \o <<Ev("connect_failed"), Ev("raise")>>
             /\ ConsumerRaised
             /\ UNCHANGED <<client, sent>>
    /\ UNCHANGED <<running, cancelReq, stopResult, dataVars, queueVars, mqtt, ws, session, connectCalls,
                   importable, cur, closeVars, startLog, startError, signals>>

\* the settle delay `await asyncio.sleep(1)` ended: refresh_snapshot() up to the
\* await in send_command
ConsumerSettled ==
    /\ pc["consumer"] = "settle"
    /\ "consumer" \notin cancelReq
    /\ IF ws = "None"
       THEN /\ trace' = trace \o <<Ev("refresh"), Ev("raise")>>
            /\ ConsumerRaised
       ELSE /\ trace' = Append(trace, Ev("refresh"))
            /\ pc' = [pc EXCEPT !["consumer"] = "fetch"]
            /\ UNCHANGED outcome
    /\ UNCHANGED <<running, cancelReq, stopResult, dataVars, queueVars, mqtt, ws, cmdrVars,
                   importable, cur, sent, closeVars, startLog, startError, signals>>

\* snapshot_nodes() ended in the consumer: the rest of refresh_snapshot, or the
\* consumer's handler
ConsumerFetched ==
    \E out \in FetchResults :
        /\ pc["consumer"] = "fetch"
        /\ "consumer" \notin cancelReq
        /\ IF RefreshRaised(out)
           THEN /\ trace' = Append(trace, Ev("raise"))
                /\ ConsumerRaised
                /\ UNCHANGED <<last_state, last_avail, retained>>
           ELSE /\ ApplyRefresh(out)
                /\ trace' = Append(trace, Ev("refreshed"))
                /\ LoopOr("consumer", "get")
        /\ UNCHANGED <<running, cancelReq, stopResult, published, observed, snapshot, tick, lastMsg, queueVars,
                       mqtt, ws, cmdrVars, importable, cur, sent, closeVars, startLog,
                       startError, signals>>

\* main() returns once the runner has set stop_event, after stop() returned;
\* the event loop and the MQTT thread end with it
Exited == pc["runner"] = "done" /\ stopResult["runner"] = "returned"

\* the MQTT thread calls _on_message while the client's loop thread runs
MqttMessage ==
    /\ mqtt = "started"
    /\ ~Exited
    /\ \E msg \in BridgeMessages : OnMessage(msg)
    /\ UNCHANGED <<running, dataVars, cmd_queue, bridgeVars>>

\* the event loop runs a callback scheduled by call_soon_threadsafe
LoopCallback ==
    /\ ~Exited
    /\ RunCallback
    /\ UNCHANGED <<running, dataVars, rx, bridgeVars>>

Next ==
    \/ RunnerStart
    \/ RunnerWsConnected
    \/ RunnerCmdConnected
    \/ RunnerRefreshed
    \/ Signal
    \/ RunnerCancelledInStart
    \/ RunnerGatherEnds
    \/ RunnerCancelledInStopWait
    \/ RunnerCancelledInClose
    \/ \E c \in Callers : StopTasksDone(c)
    \/ \E c \in Callers : StopWsClosed(c)
    \/ \E c \in Callers : StopCmdClosed(c)
    \/ AgainCalls
    \/ \E t \in Tasks : TaskCancelled(t)
    \/ RefreshTaskStart
    \/ RefreshTaskWake
    \/ RefreshTaskFetched
    \/ ConsumerStart
    \/ ConsumerGet
    \/ ConsumerSendDone
    \/ ConsumerDisconnected
    \/ ConsumerReconnected
    \/ ConsumerSettled
    \/ ConsumerFetched
    \/ MqttMessage
    \/ LoopCallback

Spec == InitBridge /\ [][Next]_vars

---------------------------------------------------------------------------
(* Reading the logs of a refresh.                                          *)

\* the payloads published on one topic, in order
PayloadsOn(topic, pubs) ==
    LET OnTopic(p) == p.topic = topic
        hits == SelectSeq(pubs, OnTopic)
    IN  [i \in 1..Len(hits) |-> hits[i].payload]

\* the known on/off readings of one key, in the order of the endpoint list
OnOffReadings(key, endpoints) ==
    LET Known(ep) == EndpointKey(ep) = key /\ ep.onoff # None
        hits == SelectSeq(endpoints, Known)
    IN  [i \in 1..Len(hits) |-> hits[i].onoff[1]]

\* the availability readings of one key, in the order of the endpoint list
AvailReadings(key, endpoints) ==
    LET OfKey(ep) == EndpointKey(ep) = key
        hits == SelectSeq(endpoints, OfKey)
    IN  [i \in 1..Len(hits) |-> hits[i].available]

RECURSIVE Changes(_, _)
\* the readings that differ from the value before them, prev being the first
Changes(prev, readings) ==
    IF readings = <<>> THEN <<>>
    ELSE IF Some(readings[1]) = prev THEN Changes(prev, Tail(readings))
    ELSE <<readings[1]>> \o Changes(Some(readings[1]), Tail(readings))

KeysOf(endpoints) == {EndpointKey(endpoints[i]) : i \in 1..Len(endpoints)}

IsStateTopic(topic) == \E parts \in {Split(topic)} : Len(parts) = 4 /\ parts[4] = W_state
IsAvailTopic(topic) == \E parts \in {Split(topic)} : Len(parts) = 4 /\ parts[4] = W_available
IsDiscoveryTopic(topic) == \E parts \in {Split(topic)} : parts[1] = W_homeassistant

---------------------------------------------------------------------------
(* C1: over refresh cycles, the state topic of a key receives a publish    *)
(* exactly for each known on/off reading that differs from the value       *)
(* last_state holds for that key at that moment (none counts as different);*)
(* a reading equal to it publishes nothing, and the value retained on the  *)
(* state topic is the one last_state records.                              *)
C1_StatePublishedIffChanged ==
    [][\A key \in KeysOf(observed') \cup DOMAIN last_state :
          LET changes == Changes(Get(last_state, key), OnOffReadings(key, observed'))
              topic == topic_state(key[1], key[2])
          IN  /\ PayloadsOn(topic, published')
                   = [i \in 1..Len(changes) |-> StatePayload(changes[i])]
              /\ key \in DOMAIN last_state' =>
                   Get(retained', topic) = Some(StatePayload(last_state'[key]))]_vars

\* a refresh observed endpoint 1 of node 1 with the on/off value last_state already
\* held, published its discovery and nothing on its state topic
C1_Witness ==
    /\ \E i \in 1..Len(observed) :
          /\ EndpointKey(observed[i]) = <<1, 1>>
          /\ observed[i].onoff = Get(last_state, <<1, 1>>)
          /\ observed[i].onoff # None
    /\ published # <<>>
    /\ PayloadsOn(topic_state(1, 1), published) = <<>>

---------------------------------------------------------------------------
(* C2: availability and on/off are de-duplicated independently per key. In *)
(* a refresh, a key whose availability readings differ from last_avail     *)
(* while its known on/off readings all equal last_state is published on    *)
(* the availability topic only, last_state and the state topic untouched;  *)
(* a key whose on/off changed while availability did not is published on   *)
(* the state topic only, last_avail untouched; a key read with unknown     *)
(* on/off only keeps its last_state and still gets its availability        *)
(* published when that changed.                                            *)
C2_IndependentDedup ==
    [][\A key \in KeysOf(observed') :
          LET onoffs == OnOffReadings(key, observed')
              avails == AvailReadings(key, observed')
              onoffSame == \A i \in 1..Len(onoffs) : Some(onoffs[i]) = Get(last_state, key)
              availSame == \A i \in 1..Len(avails) : Some(avails[i]) = Get(last_avail, key)
              st == topic_state(key[1], key[2])
              av == topic_available(key[1], key[2])
          IN  /\ onoffSame =>
                   /\ PayloadsOn(st, published') = <<>>
                   /\ Get(last_state', key) = Get(last_state, key)
                   /\ Get(retained', st) = Get(retained, st)
              /\ availSame =>
                   /\ PayloadsOn(av, published') = <<>>
                   /\ Get(last_avail', key) = Get(last_avail, key)
                   /\ Get(retained', av) = Get(retained, av)
              /\ ~availSame =>
                   /\ PayloadsOn(av, published') # <<>>
                   /\ Get(last_avail', key) = Some(avails[Len(avails)])
              /\ ~onoffSame =>
                   /\ PayloadsOn(st, published') # <<>>
                   /\ Get(last_state', key) = Some(onoffs[Len(onoffs)])]_vars

\* a refresh read endpoint 2 of node 1 with unknown on/off after last_state had
\* recorded a value for it: availability was published, the state topic was not
C2_Witness ==
    /\ \E i \in 1..Len(observed) :
          EndpointKey(observed[i]) = <<1, 2>> /\ observed[i].onoff = None
    /\ <<1, 2>> \in DOMAIN last_state
    /\ PayloadsOn(topic_available(1, 2), published) # <<>>
    /\ PayloadsOn(topic_state(1, 2), published) = <<>>
    /\ \E i \in 1..Len(observed) :
          /\ EndpointKey(observed[i]) = <<1, 1>> /\ observed[i].onoff # None
          /\ PayloadsOn(topic_available(1, 1), published) # <<>>
          /\ PayloadsOn(topic_state(1, 1), published) = <<>>

---------------------------------------------------------------------------
(* C3 as claimed: the publishes of one refresh come in three phases, every *)
(* discovery message before every availability message and every           *)
(* availability message before every state message.                        *)
C3_ThreePhases ==
    \A i, j \in 1..Len(published) :
        i < j =>
            /\ IsDiscoveryTopic(published[j].topic) => IsDiscoveryTopic(published[i].topic)
            /\ IsAvailTopic(published[j].topic) => ~IsStateTopic(published[i].topic)

RECURSIVE IsSubseq(_, _)
\* a is b with some elements left out
IsSubseq(a, b) ==
    IF a = <<>> THEN TRUE
    ELSE IF b = <<>> THEN FALSE
    ELSE IF a[1] = b[1] THEN IsSubseq(Tail(a), Tail(b))
    ELSE IsSubseq(a, Tail(b))

\* availability topic then state topic of each endpoint, in list order
PerEndpointTopics(endpoints) ==
    [i \in 1..(2 * Len(endpoints)) |->
        LET ep == endpoints[(i + 1) \div 2]
        IN  IF i % 2 = 1 THEN topic_available(ep.node_id, ep.endpoint)
            ELSE topic_state(ep.node_id, ep.endpoint)]

(* C3 as amended: one refresh publishes the discovery message of every     *)
(* extracted endpoint first, in list order; after them it goes through the *)
(* endpoints in list order and publishes, for each, its availability       *)
(* message and then its state message (each only when changed), so the     *)
(* state message of an earlier endpoint precedes the availability message  *)
(* of a later one.                                                         *)
C3_DiscoveryThenPerEndpoint ==
    LET n == Len(observed)
    IN  /\ Len(published) >= n
        /\ \A i \in 1..n :
              published[i].topic = ha_discovery_topic(observed[i].node_id, observed[i].endpoint)
        /\ IsSubseq([i \in 1..(Len(published) - n) |-> published[n + i].topic],
                    PerEndpointTopics(observed))

\* a refresh published the state of one endpoint before the availability of the next
C3_Witness ==
    \E i, j \in 1..Len(published) :
        /\ i < j
        /\ IsStateTopic(published[i].topic)
        /\ IsAvailTopic(published[j].topic)
        /\ published[i].topic = topic_state(1, 1)
        /\ published[j].topic = topic_available(1, 2)

---------------------------------------------------------------------------
(* Reading the consumer's trace.                                           *)

\* the positions of the events named e in tr
Positions(tr, e) == {i \in 1..Len(tr) : tr[i].e = e}

\* tr has the events named names[1], names[2], ... from position i on, as far
\* as it reaches
Continues(tr, i, names) ==
    \A k \in 1..Len(names) : i + k - 1 <= Len(tr) => tr[i + k - 1].e = names[k]

\* the outcomes of a send
SendFailures == {"lost", "error"}

---------------------------------------------------------------------------
(* C4: in the processing of one command the send primitive is invoked at    *)
(* most twice and at most one reconnect is made.  When the first send fails *)
(* with a connection loss, set_onoff disconnects, reconnects once and, when *)
(* the reconnect succeeded, retries the send once; a second send happens    *)
(* only so.  When the reconnect fails, or the retry fails in any way, the   *)
(* error reaches the caller at once: nothing more is done for the command.  *)
C4_ReconnectOnceRetryOnce ==
    LET n == Len(trace)
        sends == Positions(trace, "send")
        first == IF sends = {} THEN 0 ELSE CHOOSE i \in sends : \A j \in sends : i <= j
    IN  /\ Cardinality(sends) <= 2
        /\ Cardinality(Positions(trace, "connect")) <= 1
        /\ \A i \in 1..n :
            /\ (i = first + 1 /\ trace[i].e = "lost")
                  => i < n /\ Continues(trace, i + 1, <<"disconnect", "connect">>)
            /\ trace[i].e = "connected" => i < n /\ trace[i + 1].e = "send"
            /\ (i \in sends /\ i # first)
                  => /\ i > 4
                     /\ trace[i - 1].e = "connected"
                     /\ trace[i - 2].e = "connect"
                     /\ trace[i - 3].e = "disconnect"
                     /\ trace[i - 4].e = "lost"
                     /\ i - 5 = first
            /\ trace[i].e = "connect_failed" => i + 1 = n /\ trace[n].e = "raise"
            /\ (trace[i].e \in SendFailures /\ i > first + 1)
                  => i + 1 = n /\ trace[n].e = "raise"

\* the retry after a reconnect failed as well and the error reached the consumer
C4_Witness ==
    /\ Cardinality(Positions(trace, "send")) = 2
    /\ Cardinality(Positions(trace, "connected")) = 1
    /\ trace[Len(trace)].e = "raise"
    /\ trace[Len(trace) - 1].e = "lost"

---------------------------------------------------------------------------
(* C5: the send attempts come in the order in which _on_message received    *)
(* the commands: every send attempt for an earlier command, its retry       *)
(* included, precedes the first send attempt for a later one.  Commands are *)
(* numbered in their order of reception.                                    *)
C5_SendsInReceptionOrder ==
    \A i \in 1..Len(sent) : \A j \in 1..Len(sent) : i < j => sent[i] <= sent[j]

\* the first command was sent twice, then the second, while the periodic task
\* was in a refresh
C5_Witness ==
    /\ sent = <<1, 1, 2>>
    /\ pc["refresh"] = "fetch"

---------------------------------------------------------------------------
(* C6: for an on or off command the consumer first publishes ON or OFF to   *)
(* the state topic of the command's endpoint, and that is its only publish  *)
(* of its own; when the channel has a client at the dequeue, the send of    *)
(* the command follows in the same step.  A successful send is followed by  *)
(* the settle delay and then one refresh_snapshot; a refresh_snapshot is    *)
(* run only so, and a failure ends the processing of the command.           *)
C6_PublishSendSettleRefresh ==
    [][ (cur' # <<>> /\ cur'[1].action \in {"on", "off"})
          => LET cmd == cur'[1]
                 tr == trace'
                 n == Len(tr)
             IN  /\ n >= 1
                 /\ tr[1] = PubEv(Pub(topic_state(cmd.node_id, cmd.endpoint),
                                      IF cmd.action = "on" THEN ON ELSE OFF))
                 /\ Positions(tr, "publish") = {1}
                 /\ (cur' # cur /\ client # "None")
                       => /\ n = 2 /\ tr[2].e = "send"
                          /\ Get(retained', tr[1].topic) = Some(tr[1].payload)
                 /\ Cardinality(Positions(tr, "refresh")) <= 1
                 /\ \A i \in 1..n :
                     /\ tr[i].e = "ok" => i < n /\ Continues(tr, i + 1, <<"sleep", "refresh">>)
                     /\ tr[i].e = "refresh"
                           => i > 3 /\ tr[i - 1].e = "sleep" /\ tr[i - 2].e = "ok"
                                    /\ tr[i - 3].e = "send"
                     /\ tr[i].e = "raise" => i = n
                     /\ tr[i].e \in SendFailures
                           => \A j \in i..n : tr[j].e = "refresh"
                                 => \E k \in i..j : tr[k].e = "ok"
       ]_vars

\* an on command went through publish, send, settle delay and refresh
C6_Witness ==
    /\ cur # <<>>
    /\ cur[1].action = "on"
    /\ [i \in 1..Len(trace) |-> trace[i].e]
          = <<"publish", "send", "ok", "sleep", "refresh", "refreshed">>
    /\ trace[1].payload = ON

---------------------------------------------------------------------------
\* the payloads of each action, as the claim lists them
Family(action) ==
    IF action = "on" THEN PayloadsOn1
    ELSE IF action = "off" THEN PayloadsOff0
    ELSE PayloadsToggle

Actions == {"on", "off", "toggle"}

(* C7 as claimed: _on_message enqueues exactly one command when the topic  *)
(* is matter/<nodeId>/<endpointId>/set with numeric ids and the payload,   *)
(* compared case-insensitively, is one of ON/1/TRUE, OFF/0/FALSE,          *)
(* TOGGLE/T; every other message enqueues nothing; nothing is raised.      *)
C7_ListedPayloadsOnly ==
    \A i \in 1..Len(lastMsg) :
        LET m == lastMsg[i].msg
            r == lastMsg[i].result
            parts == Split(m.topic)
            listed == \E a \in Actions : Upper(m.payload) \in Family(a)
        IN  /\ ~r.escaped
            /\ Len(r.cmds) <= 1
            /\ r.cmds # <<>> <=>
                 /\ Len(parts) = 4 /\ parts[1] = W_matter /\ parts[4] = W_set
                 /\ PyInt(parts[2]).ok /\ PyInt(parts[3]).ok
                 /\ listed

(* C7 as amended: a message whose topic is matter/<nodeId>/<endpointId>/set *)
(* (exactly four segments, ids that int() accepts) and whose payload, after *)
(* stripping surrounding whitespace and upper-casing, is one of ON/1/TRUE, *)
(* OFF/0/FALSE, TOGGLE/T enqueues exactly one command with those ids and   *)
(* the matching action; every other message enqueues nothing; nothing is   *)
(* raised out of the callback; every accepted command reaches the queue    *)
(* once.                                                                   *)
C7_CommandIngress ==
    /\ Len(scheduled) + Len(cmd_queue) = rx
    /\ \A i \in 1..Len(lastMsg) :
        LET m == lastMsg[i].msg
            r == lastMsg[i].result
            parts == Split(m.topic)
        IN  /\ ~r.escaped
            /\ Len(r.cmds) <= 1
            /\ \A n \in 0..12, e \in 0..3, a \in Actions :
                   m.topic = command_topic(n, e) /\ Upper(Strip(m.payload)) \in Family(a)
                   => r.cmds = <<[node_id |-> n, endpoint |-> e, action |-> a]>>
            /\ r.cmds # <<>> =>
                   /\ Len(parts) = 4 /\ parts[1] = W_matter /\ parts[4] = W_set
                   /\ PyInt(parts[2]) = [ok |-> TRUE, val |-> r.cmds[1].node_id]
                   /\ PyInt(parts[3]) = [ok |-> TRUE, val |-> r.cmds[1].endpoint]
                   /\ r.cmds[1].action \in Actions
                   /\ Upper(Strip(m.payload)) \in Family(r.cmds[1].action)
                   /\ \E q \in {cmd_queue \o scheduled} :
                        /\ q # <<>>
                        /\ q[Len(q)].node_id = r.cmds[1].node_id
                        /\ q[Len(q)].endpoint = r.cmds[1].endpoint
                        /\ q[Len(q)].action = r.cmds[1].action

\* " on" followed by a newline on matter/1/1/set put the command on for node 1,
\* endpoint 1 on the queue
C7_Witness ==
    /\ lastMsg # <<>>
    /\ lastMsg[1].msg = Msg(command_topic(1, 1), <<" ", "o", "n", "\n">>)
    /\ lastMsg[1].result.cmds = <<[node_id |-> 1, endpoint |-> 1, action |-> "on"]>>
    /\ cmd_queue # <<>>
    /\ cmd_queue[Len(cmd_queue)].action = "on"
    /\ cmd_queue[Len(cmd_queue)].id = rx

---------------------------------------------------------------------------
(* Reading the logs of start() and stop().                                 *)

\* how often stop() called the close of resource r
CloseCalls(r) == Cardinality({i \in 1..Len(closeLog) : closeLog[i] = r})

IsPrefix(a, b) == Len(a) <= Len(b) /\ \A i \in 1..Len(a) : a[i] = b[i]

\* task t has executed a step
Ran(t) == pc[t] \notin {"absent", "created"} /\ outcome[t] # "unstarted"

---------------------------------------------------------------------------
(* C8: over the runner's call of stop() and a second call, made while the   *)
(* first is in progress or after it, each of mqtt.close, matter_ws.close    *)
(* and matter_cmd.close is called at most once, and no exception raised by  *)
(* a close or by a task leaves stop().                                      *)
C8_StopIdempotent ==
    /\ \A r \in {"mqtt", "ws", "cmd"} : CloseCalls(r) <= 1
    /\ \A c \in Callers : stopResult[c] # "Exception"

\* both calls of stop() returned and
\* every close had raised
C8_Witness ==
    /\ stopResult["runner"] = "returned"
    /\ stopResult["again"] = "returned"
    /\ closeLog = <<"mqtt", "ws", "cmd">>
    /\ closeFailed = {"mqtt", "ws", "cmd"}

---------------------------------------------------------------------------
---------------------------------------------------------------------------
(* C10: start() completes its steps in the order mqtt connect, matter_ws    *)
(* connect, the attempt of matter_cmd connect, first refresh_snapshot; no   *)
(* task executes a step before all four are complete; a failed matter_cmd   *)
(* connect is never the failure that ends start(): start() goes on to the   *)
(* first refresh.                                                          *)
C10_StartupOrder ==
    /\ \E cmd \in {"cmd_ok", "cmd_failed"} :
          IsPrefix(startLog, <<"mqtt", "ws", cmd, "refresh">>)
    /\ (\E t \in Tasks : Ran(t)) => Len(startLog) = 4
    /\ startError # "cmd"
    /\ (Len(startLog) = 3 /\ startLog[3] = "cmd_failed")
          => pc["runner"] = "refresh" \/ startError = "refresh" \/ signals > 0

\* matter_cmd.connect() failed and both tasks are running
C10_Witness ==
    /\ startLog = <<"mqtt", "ws", "cmd_failed", "refresh">>
    /\ pc["refresh"] = "sleep"
    /\ pc["consumer"] = "get"
    /\ importable

---------------------------------------------------------------------------
(* C11: failures that leave start().                                       *)

\* C11 (as claimed): start() ends with an error only when mqtt.connect() or
\* matter_ws.connect() failed; a failing startup refresh, a failing commander
\* connect and a failing task never make start() end with an error.
\* startError names the step whose exception left start().
C11_OnlyConnectFailuresFatal == startError \in {"none", "mqtt", "ws"}

---------------------------------------------------------------------------
(* C12: a node that cannot be extracted, among nodes that can.             *)

\* the node can be extracted on its own
Extractable(node) == ~extract_onoff_endpoints_from_node(node).raised

\* C12 (as claimed): a node of the snapshot that cannot be extracted does not
\* prevent the publication of the others: every refresh_snapshot publishes
\* what a refresh of the snapshot's extractable nodes publishes (discovery,
\* availability and state, against the caches as they were).
C12_BatchIsolation ==
    [][published' = RefreshBody(SelectSeq(snapshot', Extractable),
                                last_state, last_avail).pubs]_vars

---------------------------------------------------------------------------
(* C13: refresh_snapshot invocations in progress.                          *)

\* the coroutines inside refresh_snapshot: past the start of its snapshot
\* fetch and not yet through its publishing
Refreshing ==
    {t \in Tasks : pc[t] = "fetch"} \cup {c \in {"runner"} : pc[c] = "refresh"}

\* C13 (as claimed): two refresh_snapshot invocations never interleave: while
\* one is between the start of its fetch and the end of its publishing, no
\* other invocation has started.
C13_RefreshesDoNotInterleave == Cardinality(Refreshing) <= 1

---------------------------------------------------------------------------
(* C14: connection attempts of the commander.                              *)

\* the coroutines awaiting client.connect() inside MatterCommander.connect()
Connecting ==
    {c \in {"runner"} : pc[c] = "cmd_connect"} \cup {t \in {"consumer"} : pc[t] = "reconnect"}

\* C14 (as claimed): at most one connection attempt is in progress at any time
\* and the exclusive lock is held by whoever is connecting for the whole of
\* every connect and reconnect.
C14_EveryConnectUnderLock ==
    /\ Cardinality(Connecting) <= 1
    /\ \A p \in Connecting : lock = p

\* C14 (amended): at most one connection attempt is in progress at any time;
\* the reconnect of _reconnect_and_retry holds the lock from its call of
\* connect() to the end of the attempt; the connect of start() takes no lock
\* and runs while neither task exists; and every call of connect() finds the
\* commander without a client, so that connect(), which always makes a new
\* client, never replaces a connected one.
C14_OneAttemptAtATime ==
    /\ Cardinality(Connecting) <= 1
    /\ pc["consumer"] = "reconnect" => lock = "consumer"
    /\ pc["runner"] = "cmd_connect" => \A t \in Tasks : ~Created(t)
    /\ \A call \in connectCalls :
          /\ call.client = "None"
          /\ call.by = "consumer" => call.lock = "consumer"

\* the consumer is reconnecting under the lock, after the lock-free connect of
\* start()
C14_Witness ==
    /\ pc["consumer"] = "reconnect"
    /\ lock = "consumer"
    /\ \E call \in connectCalls : call.by = "runner" /\ call.lock = "free"
    /\ \E call \in connectCalls : call.by = "consumer"

---------------------------------------------------------------------------
(* The extraction specification: extract_onoff_endpoints_from_node over    *)
(* the attribute dicts of one node.                                        *)

\* attribute keys of a node: OnOff attributes of two endpoints, another OnOff
\* attribute, another cluster, and three malformed keys
KeySamples ==
    { AttrKey(1, 6, 0), AttrKey(2, 6, 0), AttrKey(1, 6, 1), AttrKey(2, 3, 0),
      <<"a", "b", "c">>, <<"1", "/", "6">>, <<"1", "/", "6", "/", "0", "/", "9">> }

\* attribute values: booleans, null, a number and a string
ValueSamples == {JBool(TRUE), JBool(FALSE), JNull, JInt(0), JStr(<<"o", "f", "f">>)}

AttrSamples == {Attr(k, v) : k \in KeySamples, v \in ValueSamples}

RECURSIVE DictsUpTo(_)
\* the attribute dicts with at most n items, in every insertion order: the keys
\* of a dict are distinct
DictsUpTo(n) ==
    IF n = 0 THEN {<<>>}
    ELSE LET shorter == DictsUpTo(n - 1)
         IN  shorter \cup
             UNION {{Append(d, a) :
                        a \in {x \in AttrSamples : \A i \in 1..Len(d) : d[i].key # x.key}} :
                    d \in shorter}

\* the nodes handed to extract_onoff_endpoints_from_node
ExtractNodes == {Node(JInt(1), JBool(TRUE), attrs) : attrs \in DictsUpTo(MaxAttrs)}

\* the extraction loop of refresh_snapshot over a snapshot of one node; the
\* function keeps no state, so a behaviour extracts once
ExtractNode ==
    \E node \in ExtractNodes :
        /\ snapshot = <<>>
        /\ snapshot' = <<node>>
        /\ observed' = extract_onoff_endpoints_from_node(node).infos
        /\ UNCHANGED <<last_state, last_avail, retained, published, otherThanRefresh>>

SpecExtract == InitBridge /\ [][ExtractNode]_vars

---------------------------------------------------------------------------
(* C15: the records extract_onoff_endpoints_from_node returns.             *)

\* the key has three parts, each a number
NumericKey(key) ==
    LET parts == Split(key)
    IN  /\ Len(parts) = 3
        /\ \A i \in 1..3 : parts[i] # <<>> /\ \A j \in 1..Len(parts[i]) : IsDigit(parts[i][j])

\* the endpoints of the attribute dict with a well-formed key in cluster 6
OnOffEndpoints(attrs) ==
    {DigitsValue(Split(attrs[i].key)[1]) :
        i \in {j \in 1..Len(attrs) :
                 NumericKey(attrs[j].key)
                 /\ DigitsValue(Split(attrs[j].key)[2]) = ONOFF_CLUSTER_ID}}

\* the on/off value the claim gives endpoint ep: that of attribute <ep>/6/0 when
\* it is present and a boolean, unknown otherwise
BooleanOnOff(attrs, ep) ==
    LET hits == {i \in 1..Len(attrs) :
                   attrs[i].key = AttrKey(ep, ONOFF_CLUSTER_ID, ONOFF_ATTRIBUTE_ID)
                   /\ attrs[i].value.t = "bool"}
    IN  IF hits = {} THEN None ELSE Some(attrs[CHOOSE i \in hits : TRUE].value.v = 1)

\* C15 (as claimed): the records are in ascending endpoint order without
\* duplicates, one for each endpoint with a well-formed key in cluster 6 and
\* none for others; onoff is the value of <ep>/6/0 when it is present and
\* boolean and unknown otherwise; malformed keys change nothing.
C15_ExtractedRecords ==
    \A n \in 1..Len(snapshot) :
        LET attrs == snapshot[n].attributes
        IN  /\ \A i, j \in 1..Len(observed) : i < j => observed[i].endpoint < observed[j].endpoint
            /\ {observed[i].endpoint : i \in 1..Len(observed)} = OnOffEndpoints(attrs)
            /\ \A i \in 1..Len(observed) :
                  observed[i].onoff = BooleanOnOff(attrs, observed[i].endpoint)

---------------------------------------------------------------------------
(* C16: refresh failures in the periodic task.                             *)

\* the periodic task's refresh_snapshot ends in this step (the task is not
\* cancelled at its await)
TickEnds == pc["refresh"] = "fetch" /\ pc'["refresh"] # "fetch" /\ outcome'["refresh"] # "cancelled"

\* the periodic task's sleep ends in this step
SleepEnds == pc["refresh"] = "sleep" /\ pc'["refresh"] # "sleep" /\ outcome'["refresh"] # "cancelled"

\* C16: in the periodic task a refresh_snapshot failure that is not transport
\* noise, while the bridge is running, does not end the task: it sleeps and at
\* the next tick, still running, calls refresh_snapshot again; a failure that
\* is transport noise ends the loop and the task returns without an error.
C16_PeriodicLoopSurvivesFailures ==
    [][/\ TickEnds /\ tick' = "error" /\ running
          => pc'["refresh"] = "sleep" /\ outcome'["refresh"] = "none"
       /\ TickEnds /\ tick' = "noise"
          => pc'["refresh"] = "done" /\ outcome'["refresh"] = "returned"
       /\ SleepEnds /\ running => pc'["refresh"] = "fetch"]_vars

\* after a failed refresh the periodic task is inside refresh_snapshot again
C16_Witness == tick = "error" /\ pc["refresh"] = "fetch" /\ running

---------------------------------------------------------------------------
(* C17: a command whose dispatch failed.                                   *)

\* the processing of the current command has failed: its error reached the
\* consumer's handler
Failed(tr) == tr # <<>> /\ tr[Len(tr)].e = "raise"

\* C17: a command whose dispatch fails (at the test of the client, at a send,
\* at the reconnect, at the retry or in the confirmatory refresh) is not put
\* back on the queue or among the scheduled callbacks, and no later send is
\* for it; the consumer does not end because of it: while the bridge is
\* running it waits in cmd_queue.get() for the next command.
C17_FailedCommandDropped ==
    [][/\ (Failed(trace') /\ trace' # trace)
          => /\ \A i \in 1..Len(cmd_queue') : cmd_queue'[i].id # cur'[1].id
             /\ \A i \in 1..Len(scheduled') : scheduled'[i].id # cur'[1].id
             /\ pc'["consumer"] = IF running THEN "get" ELSE "done"
             /\ outcome'["consumer"] = IF running THEN "none" ELSE "returned"
       /\ \A i \in 1..Len(cmd_queue') : \A j \in 1..Len(sent') : cmd_queue'[i].id # sent'[j]
       /\ (Failed(trace) /\ sent' # sent)
          => /\ cur' # cur
             /\ sent' = Append(sent, cur'[1].id)
             /\ cur'[1].id > cur[1].id
      ]_vars

\* the confirmatory refresh of the first command has failed and the consumer
\* waits in cmd_queue.get(), where the second command is
C17_Witness ==
    /\ Failed(trace)
    /\ Positions(trace, "refresh") # {}
    /\ cur[1].id = 1
    /\ Len(cmd_queue) = 1 /\ cmd_queue[1].id = 2
    /\ pc["consumer"] = "get"
    /\ running

---------------------------------------------------------------------------
(* The commander specification: a coroutine calls MatterCommander.connect() *)
(* and MatterCommander.set_onoff() directly, with any action, on a          *)
(* commander without a client, with a client that failed to connect, or     *)
(* with a connected client.  cur, trace and sent are those of the call.     *)

\* the actions handed to set_onoff: the three it knows and another
CallActions == {"on", "off", "toggle", "dim"}

\* how an awaited wait_for(send_device_command) ends: as SendResults, or with
\* the TimeoutError of wait_for, whose message is empty
TimedSendResults(cl) == SendResults(cl) \cup {"timeout"}

otherThanCommander ==
    <<running, dataVars, queueVars, mqtt, ws, importable, cancelReq, outcome, closeVars,
      startLog, startError, stopResult, signals>>

\* set_onoff after ensure_connected, with a client: the validation of the
\* action, then the first send up to its await
Validate(tr, cmd) ==
    IF cmd.action \notin {"on", "off", "toggle"}
    THEN /\ trace' = tr \o <<Ev("invalid"), Ev("raise")>>
         /\ pc' = [pc EXCEPT !["user"] = "idle"]
         /\ UNCHANGED sent
    ELSE /\ trace' = Append(tr, Ev("send"))
         /\ sent' = Append(sent, cmd.id)
         /\ pc' = [pc EXCEPT !["user"] = "send1"]

\* connect(), called as start() calls it, on a commander without a client
UserConnect ==
    /\ pc["user"] = "idle"
    /\ client = "None"
    /\ connectCalls' = connectCalls \cup {ConnectCall("user", client)}
    /\ IF importable
       THEN /\ client' = "new"
            /\ session' = TRUE
            /\ pc' = [pc EXCEPT !["user"] = "connect"]
       ELSE UNCHANGED <<client, session, pc>>
    /\ UNCHANGED <<lock, cur, trace, sent, otherThanCommander>>

\* the client.connect() of that call ended; connect() re-raises its failure
UserConnected ==
    /\ pc["user"] = "connect"
    /\ \E ok \in BOOLEAN : client' = IF ok THEN "connected" ELSE client
    /\ pc' = [pc EXCEPT !["user"] = "idle"]
    /\ UNCHANGED <<session, lock, connectCalls, cur, trace, sent, otherThanCommander>>

\* set_onoff(1, 1, action): ensure_connected takes the lock and, without a
\* client, calls connect(); with a client it returns and set_onoff goes on
UserSetOnOff ==
    \E action \in CallActions :
        \E cmd \in {[id |-> IF cur = <<>> THEN 1 ELSE cur[1].id + 1,
                     node_id |-> 1, endpoint |-> 1, action |-> action]} :
            /\ pc["user"] = "idle"
            /\ cmd.id <= MaxCalls
            /\ lock = "free"
            /\ cur' = <<cmd>>
            /\ IF client # "None"
               THEN /\ Validate(<<>>, cmd)
                    /\ UNCHANGED <<client, session, lock, connectCalls>>
               ELSE /\ connectCalls' = connectCalls \cup {ConnectCall("user", client)}
                    /\ UNCHANGED sent
                    /\ IF importable
                       THEN /\ client' = "new"
                            /\ session' = TRUE
                            /\ lock' = "user"
                            /\ trace' = <<Ev("connect")>>
                            /\ pc' = [pc EXCEPT !["user"] = "ensure"]
                       ELSE /\ trace' = <<Ev("connect_failed"), Ev("raise")>>
                            /\ UNCHANGED <<client, session, lock, pc>>
            /\ UNCHANGED otherThanCommander

\* the client.connect() of ensure_connected ended: the lock is released; a
\* failure leaves set_onoff, else set_onoff goes on with the new client
UserEnsured ==
    /\ pc["user"] = "ensure"
    /\ lock' = "free"
    /\ \E ok \in BOOLEAN :
        IF ok
        THEN /\ client' = "connected"
             /\ Validate(Append(trace, Ev("connected")), cur[1])
        ELSE /\ trace' = trace \o <<Ev("connect_failed"), Ev("raise")>>
             /\ pc' = [pc EXCEPT !["user"] = "idle"]
             /\ UNCHANGED <<client, sent>>
    /\ UNCHANGED <<session, connectCalls, cur, otherThanCommander>>
\* a send ended: set_onoff returns, or _reconnect_and_retry takes the lock and
\* awaits client.disconnect(), or the error leaves set_onoff
UserSendDone ==
    /\ pc["user"] \in {"send1", "send2"}
    /\ \E res \in TimedSendResults(client) :
        IF res = "ok"
        THEN /\ trace' = Append(trace, Ev("ok"))
             /\ pc' = [pc EXCEPT !["user"] = "idle"]
             /\ UNCHANGED lock
        ELSE IF NeedsReconnect(IF pc["user"] = "send1" THEN 1 ELSE 2, res)
        THEN /\ lock = "free"
             /\ lock' = "user"
             /\ trace' = trace \o <<Ev(res), Ev("disconnect")>>
             /\ pc' = [pc EXCEPT !["user"] = "disconnect"]
        ELSE /\ trace' = trace \o <<Ev(res), Ev("raise")>>
             /\ pc' = [pc EXCEPT !["user"] = "idle"]
             /\ UNCHANGED lock
    /\ UNCHANGED <<client, session, connectCalls, cur, sent, otherThanCommander>>

\* client.disconnect() ended: the client is forgotten and connect() makes a
\* new one
UserDisconnected ==
    /\ pc["user"] = "disconnect"
    /\ connectCalls' = connectCalls \cup {ConnectCall("user", ForgetClient(client))}
    /\ IF importable
       THEN /\ client' = "new"
            /\ session' = TRUE
            /\ trace' = Append(trace, Ev("connect"))
            /\ pc' = [pc EXCEPT !["user"] = "reconnect"]
            /\ UNCHANGED lock
       ELSE /\ client' = ForgetClient(client)
            /\ lock' = "free"
            /\ trace' = trace \o <<Ev("connect_failed"), Ev("raise")>>
            /\ pc' = [pc EXCEPT !["user"] = "idle"]
            /\ UNCHANGED session
    /\ UNCHANGED <<cur, sent, otherThanCommander>>

\* the new client's connect() ended: the lock is released and the send is
\* retried, or the failure leaves set_onoff
UserReconnected ==
    /\ pc["user"] = "reconnect"
    /\ lock' = "free"
    /\ \E ok \in BOOLEAN :
        IF ok
        THEN /\ client' = "connected"
             /\ trace' = trace \o <<Ev("connected"), Ev("send")>>
             /\ sent' = Append(sent, cur[1].id)
             /\ pc' = [pc EXCEPT !["user"] = "send2"]
        ELSE /\ trace' = trace \o <<Ev("connect_failed"), Ev("raise")>>
             /\ pc' = [pc EXCEPT !["user"] = "idle"]
             /\ UNCHANGED <<client, sent>>
    /\ UNCHANGED <<session, connectCalls, cur, otherThanCommander>>

NextCommander ==
    \/ UserConnect
    \/ UserConnected
    \/ UserSetOnOff
    \/ UserEnsured
    \/ UserSendDone
    \/ UserDisconnected
    \/ UserReconnected

SpecCommander == InitBridge /\ [][NextCommander]_vars

---------------------------------------------------------------------------
(* C18: failures of set_onoff that are not a connection loss.              *)

\* the events of a trace, by name
Events(tr) == [i \in 1..Len(tr) |-> tr[i].e]

\* position i of tr is a failure of set_onoff that is not classified as a
\* connection loss: an invalid action, or a timeout or another error of the
\* first send
OtherFailureAt(tr, i) ==
    \/ tr[i].e = "invalid"
    \/ /\ tr[i].e \in {"timeout", "error"}
       /\ Cardinality({j \in Positions(tr, "send") : j < i}) = 1

\* C18: a failure of set_onoff that is not classified as a connection loss (a
\* timeout of the bounded send, another error of the first send, an invalid
\* action) is raised to the caller at once: nothing follows it in the call, no
\* disconnect and no reconnect is made, the step that raises it leaves the
\* client handle as it is and the lock free, and the send primitive was invoked
\* once, and not at all for an invalid action.
C18_OtherFailuresSurfaceAtOnce ==
    [][\A i \in 1..Len(trace') :
          OtherFailureAt(trace', i)
          => /\ i + 1 = Len(trace') /\ trace'[i + 1].e = "raise"
             /\ Positions(trace', "disconnect") = {}
             /\ \A j \in Positions(trace', "connect") : j = 1 /\ j < i
             /\ Cardinality(Positions(trace', "send"))
                   = IF trace'[i].e = "invalid" THEN 0 ELSE 1
             /\ trace' # trace
                   => /\ pc'["user"] = "idle"
                      /\ lock' = "free"
                      /\ client' # "None"
                      /\ pc["user"] # "ensure" => client' = client
      ]_vars

\* a send on a connected client timed out and the error left set_onoff
C18_Witness ==
    /\ Events(trace) = <<"send", "timeout", "raise">>
    /\ client = "connected"
    /\ pc["user"] = "idle"

\* set_onoff with the action "dim" raised without a send
C18_WitnessInvalid ==
    /\ Events(trace) = <<"invalid", "raise">>
    /\ cur[1].action = "dim"
    /\ sent = <<>>

---------------------------------------------------------------------------
(* C19: commands while the channel is not connected.                       *)

\* C19 (as claimed): when the consumer dequeues a command while the channel is
\* not connected (the last connect attempt, at startup or in a reconnect,
\* failed, or none could be made), it fails the command at once without
\* invoking the send primitive and waits for the next command.
C19_NoSendWhileDisconnected ==
    [][(cur' # cur /\ client # "connected")
          => /\ sent' = sent
             /\ Failed(trace')
             /\ pc'["consumer"] \in {"get", "done"}]_vars

---------------------------------------------------------------------------
(* C20: discovery in every refresh.                                        *)

\* the positions of the discovery messages among pubs
DiscoveryPositions(pubs) == {i \in 1..Len(pubs) : IsDiscoveryTopic(pubs[i].topic)}

\* C20: a refresh_snapshot that extracted endpoints publishes one discovery
\* message for each extracted endpoint record, whatever last_state and
\* last_avail hold, also when no availability and no state is published; a
\* refresh_snapshot that extracted no endpoint publishes nothing and leaves
\* both caches as they are.
C20_DiscoveryEveryRefresh ==
    [][IF observed' # <<>>
       THEN /\ DiscoveryPositions(published') = 1..Len(observed')
            /\ \A i \in 1..Len(observed') :
                  /\ published'[i].topic
                        = ha_discovery_topic(observed'[i].node_id, observed'[i].endpoint)
                  /\ Get(retained', published'[i].topic) = Some(published'[i].payload)
       ELSE /\ published' = <<>>
            /\ last_state' = last_state
            /\ last_avail' = last_avail
            /\ retained' = retained]_vars

\* a refresh that found two endpoints unchanged published their two discovery
\* messages and nothing else
C20_Witness ==
    /\ Len(observed) = 2
    /\ Len(published) = 2
    /\ DiscoveryPositions(published) = {1, 2}
    /\ \A i \in 1..2 : /\ Get(last_avail, EndpointKey(observed[i])) = Some(observed[i].available)
                       /\ Get(last_state, EndpointKey(observed[i])) = observed[i].onoff

---------------------------------------------------------------------------
(* C21: the optimistic publish of a dequeued command.                      *)

\* the consumer takes a command off cmd_queue in this step
Dequeues == Len(cmd_queue') < Len(cmd_queue)

\* the positions of the trace with that event
EventPositions(tr, name) == {i \in 1..Len(tr) : tr[i].e = name}

\* the first event of the trace is the publish of the command's desired value
\* on its state topic
StartsWithOptimistic(tr, cmd) ==
    /\ tr # <<>>
    /\ tr[1] = PubEv(Pub(topic_state(cmd.node_id, cmd.endpoint),
                         StatePayload(cmd.action = "on")))

\* C21 (as claimed): every dequeued command, whatever its action and whether
\* or not the commander has a client, is first published optimistically on its
\* state topic, before any send.
C21_OptimisticForEveryCommand ==
    [][Dequeues => StartsWithOptimistic(trace', Head(cmd_queue))]_vars

\* C21 (amended): a dequeued on or off command is first published on its state
\* topic ("ON" for on, "OFF" for off) and retained, with or without a client,
\* and before the send if there is one; for a dequeued toggle nothing is
\* published before the test of the client and the send.
C21_OptimisticForOnOff ==
    [][Dequeues =>
         LET cmd == Head(cmd_queue)
         IN  /\ cur' = <<cmd>>
             /\ IF cmd.action \in {"on", "off"}
                THEN /\ StartsWithOptimistic(trace', cmd)
                     /\ EventPositions(trace', "publish") = {1}
                     /\ Get(retained', topic_state(cmd.node_id, cmd.endpoint))
                           = Some(StatePayload(cmd.action = "on"))
                ELSE /\ EventPositions(trace', "publish") = {}
                     /\ retained' = retained
             /\ client = "None" => EventPositions(trace', "send") = {}
             /\ client # "None" => EventPositions(trace', "send") = {Len(trace')}]_vars

\* an on command dequeued while the commander has no client: published, then
\* failed without a send
C21_Witness ==
    /\ cur # <<>>
    /\ cur[1].action = "on"
    /\ client = "None"
    /\ trace = <<PubEv(Pub(topic_state(cur[1].node_id, cur[1].endpoint), ON)), Ev("raise")>>
    /\ sent = <<>>

\* a toggle dequeued with a client: sent, with nothing published
C21_WitnessToggle ==
    /\ cur # <<>>
    /\ cur[1].action = "toggle"
    /\ trace = <<Ev("send")>>

---------------------------------------------------------------------------
(* C22: the state topic after an optimistic publish and a later refresh.   *)

\* the consumer's confirmatory refresh_snapshot of the current command has
\* completed, and no command was dequeued since
ConfirmedByRefresh == trace # <<>> /\ trace[Len(trace)].e = "refreshed"

\* C22 (as claimed): after the optimistic publish of an on or off command for
\* endpoint k and a completed refresh_snapshot that observed k with a known
\* on/off value, the payload last published on k's state topic is that value.
\* A completed refresh leaves the last value it observed for k in
\* last_state[k], and only a refresh writes last_state.
C22_OptimisticReconciled ==
    (cur # <<>> /\ cur[1].action \in {"on", "off"} /\ ConfirmedByRefresh)
       => LET k == <<cur[1].node_id, cur[1].endpoint>>
          IN  Get(last_state, k) # None
                 => Get(retained, topic_state(k[1], k[2]))
                       = Some(StatePayload(Get(last_state, k)[1]))

---------------------------------------------------------------------------
(* C23: progress of the consumer.  The scheduler runs every coroutine that *)
(* is ready; an await that the code bounds by a timeout ends: the send     *)
(* (asyncio.wait_for), the settle delay (asyncio.sleep(1)) and the answer  *)
(* of snapshot_nodes (ws.receive(timeout)).  _reconnect_and_retry awaits   *)
(* client.disconnect() and client.connect() without a timeout, so nothing  *)
(* makes ConsumerDisconnected or ConsumerReconnected happen.               *)

\* the consumer's steps that the event loop or a timeout brings about
ConsumerFairness ==
    /\ WF_vars(LoopCallback)
    /\ WF_vars(ConsumerStart)
    /\ WF_vars(ConsumerGet)
    /\ WF_vars(ConsumerSendDone)
    /\ WF_vars(ConsumerSettled)
    /\ WF_vars(ConsumerFetched)

SpecProgress == Spec /\ ConsumerFairness

\* the same with an end of every await of the reconnect
SpecProgressBounded ==
    SpecProgress /\ WF_vars(ConsumerDisconnected) /\ WF_vars(ConsumerReconnected)

\* the command numbered id is on cmd_queue and the consumer task exists
Waiting(id) ==
    /\ Created("consumer")
    /\ \E i \in 1..Len(cmd_queue) : cmd_queue[i].id = id

\* the consumer is through with the command numbered id
Processed(id) ==
    /\ cur # <<>>
    /\ \/ cur[1].id > id
       \/ cur[1].id = id /\ pc["consumer"] = "get"

\* the bridge is being shut down: stop() has begun or the consumer is cancelled
ShuttingDown == ~running \/ "consumer" \in cancelReq \/ Done("consumer")

\* C23 (as claimed): while the bridge runs, every command on the queue is
\* eventually dequeued and its processing eventually ends.
C23_CommandsProgress ==
    \A id \in 1..MaxCmds : Waiting(id) ~> (Processed(id) \/ ShuttingDown)

---------------------------------------------------------------------------
(* C24: when the periodic task leaves its loop.                            *)

\* periodic_refresh_task ends in this step
RefreshTaskEnds == pc["refresh"] # "done" /\ pc'["refresh"] = "done"

\* C24 (as claimed): the periodic task ends only once stop() has set running
\* to false or the task was cancelled.
C24_LoopEndsOnlyAtShutdown ==
    [][RefreshTaskEnds
          => ~running \/ outcome'["refresh"] \in {"cancelled", "unstarted"}]_vars

=============================================================================
